---------------------------- MODULE Spec2Model ----------------------------
(***************************************************************************)
(* Offline-caching and update-lifecycle layer of the IrshadOS frontend.    *)
(*                                                                         *)
(*   SpecApp : the foreground page, src/irshados-frontend/src/App.tsx      *)
(*             (update lifecycle controller, install prompt state)         *)
(*   SpecSW  : the background worker,                                      *)
(*             src/irshados-frontend/public/service-worker.js              *)
(*             (router, caching strategies, offline queue, catch handler)  *)
(*                                                                         *)
(* The two contexts share no memory; every variable belongs to one of      *)
(* them and each specification leaves the other context's variables alone. *)
(***************************************************************************)
EXTENDS Integers, Sequences, FiniteSets, TLC

\* ------------------------------------------------------------------ bounds

\* Number of service-worker versions the browser installs during one page life.
MaxWorkers == 3

\* Number of POST attempts that fail, and are queued, during one run.
MaxQueue == 3

\* Number of clock steps during one run; one step is half the retention time.
MaxClock == 3

\* Number of beforeinstallprompt events during one page life.
MaxPrompts == 2

\* Number of times the user activates the install button.
MaxClicks == 2

\* Largest quantity a cart line is let to reach.
MaxQuantity == 3

\* Length of the longest build-time manifest considered.
MaxManifestLen == 3

\* "No object": a null reference to a ServiceWorker (workers are
\* 1..MaxWorkers) or to a beforeinstallprompt event (1..MaxPrompts).
NULL == 0

Workers == 1..MaxWorkers

\* event.data of a message event: the payloads the handlers distinguish.
\* "undefined" is an event without data (event.data?.type is undefined).
MessageData == {"SKIP_WAITING", "NEW_VERSION", "OTHER", "undefined"}

InstallOutcome == {"accepted", "dismissed"}

VARIABLES
    \* ---- foreground page (App.tsx)
    swSupported,        \* 'serviceWorker' in navigator
    isMounted,          \* let isMounted (App.tsx:34), false after the effect's cleanup
    refreshing,         \* let refreshing (App.tsx:35)
    updateAvailable,    \* useState(false) (App.tsx:25)
    waitingWorkerRef,   \* waitingWorkerRef.current (App.tsx:27)
    showInstallPrompt,  \* useState(false) (App.tsx:24)
    deferredPromptRef,  \* deferredPromptRef.current (App.tsx:26), an event or NULL
    nextPrompt,         \* next beforeinstallprompt event the browser will fire
    promptProp,         \* InstallPWA's deferredPrompt prop, as last rendered
    isVisible,          \* InstallPWA's isVisible state (helpStore.ts:72)
    prompted,           \* events whose prompt() was called and shown
    userChoice,         \* each event's userChoice promise
    awaiting,           \* handleInstall calls suspended at an await
    clicks,             \* handleInstall calls so far
    reports,            \* onInstallChoice calls so far, in order
    readyPc,            \* position of registerUpdateListeners
    stateListeners,     \* workers carrying the statechange listener of App.tsx:56
    \* ---- browser state the page observes
    regInstalling,      \* registration.installing
    regWaiting,         \* registration.waiting
    regActive,          \* registration.active
    controller,         \* navigator.serviceWorker.controller
    workerState,        \* ServiceWorker.state of every worker
    nextWorker,         \* next worker version the browser will install
    \* ---- observations
    reloads,            \* calls of window.location.reload()
    ccPending,          \* controllerchange events fired and not yet dispatched
    ccCount,            \* controllerchange notifications handled
    skipPosted,         \* workers that were sent { type: "SKIP_WAITING" }
    lastEvent,          \* the event handled by the last step
    \* ---- background worker (service-worker.js)
    workbox,            \* self.workbox is defined (service-worker.js:10)
    manifestEntries,    \* self.__WB_MANIFEST (service-worker.js:15)
    routes,             \* routes registered with the router, in order
    catchHandler,       \* routing.setCatchHandler was called
    queueName,          \* name of the background-sync queue, "" when none
    messageListener,    \* the message listener of service-worker.js:118
    precacheManifest,   \* the list handed to precacheAndRoute (service-worker.js:30)
    urlsToCacheKeys,    \* the precache controller's cache keys, from the manifest
    precacheStore,      \* cache keys held by the precache
    caches,             \* runtime caches: namespace -> url -> stored status
    queue,              \* the offline queue, oldest entry first
    lastResp,           \* what the worker did with the last event
    clock,              \* Date.now(), in steps of half the retention time
    nextId,             \* number the next queued request gets
    syncing,            \* a replay pass (replayRequests) is running
    inFlight,           \* the entry the pass has shifted and is re-sending
    passLog,            \* ids the running (or last) pass has attempted, in order
    lastReplay,         \* what the last step of a replay pass did
    expCache,           \* the runtime cache whose expiration is followed
    expRecent,          \* its entries written since time last passed
    expPast,            \* its entries written before that
    expPastAge,         \* age of those older entries, in seconds
    lastExpire,         \* the last write to that cache, or the passing of time
    \* ---- the help panel (helpStore.ts, routeKeyStore)
    isOpen,             \* useHelpStore's isOpen
    topicKey,           \* useHelpStore's topicKey
    currentRouteKey,    \* useRouteKeyStore's currentRouteKey
    lastHelp,           \* the last thing done to the help panel
    \* ---- the sign-up form (SignUpForm.tsx)
    organizationMode,   \* the form's organizationMode value
    role,               \* the form's role value
    effectPending,      \* the role effect is due to run
    \* ---- the cart (useCartStore)
    items,              \* the cart's lines, in order
    lastCart            \* the last cart action and its arguments

appVars == <<swSupported, isMounted, refreshing, updateAvailable, waitingWorkerRef,
             showInstallPrompt, deferredPromptRef, nextPrompt, promptProp, isVisible,
             prompted, userChoice, awaiting, clicks, reports, readyPc, stateListeners,
             regInstalling, regWaiting, regActive, controller, workerState,
             nextWorker, reloads, ccPending, ccCount, skipPosted, lastEvent>>

swVars == <<workbox, manifestEntries, routes, catchHandler, queueName, messageListener,
            precacheManifest, urlsToCacheKeys, precacheStore, caches, queue, lastResp,
            clock, nextId, syncing, inFlight, passLog, lastReplay,
            expCache, expRecent, expPast, expPastAge, lastExpire>>

helpVars == <<isOpen, topicKey, currentRouteKey, lastHelp>>

formVars == <<organizationMode, role, effectPending>>

cartVars == <<items, lastCart>>

uiVars == <<helpVars, formVars, cartVars>>

vars == <<appVars, swVars, uiVars>>

Ev(type, arg, cond, worker) ==
    [type |-> type, arg |-> arg, cond |-> cond, worker |-> worker]

\* ------------------------------------------------------- App.tsx handlers

\* Variant: the handler assigns the comparison instead of only setting on a match.
HandleMessage_Assign(data, ua) ==
    data = "NEW_VERSION"

\* handleMessage (App.tsx:68-72): the value of updateAvailable after a message.
HandleMessage(data, ua) ==
    IF data = "NEW_VERSION" THEN TRUE ELSE ua

\* Variant: the listener forgets to test for an active controller.
IsUpdateInstalled_NoController(state, ctrl) ==
    state = "installed"

\* The statechange listener's condition (App.tsx:57).
IsUpdateInstalled(state, ctrl) ==
    state = "installed" /\ ctrl # NULL

\* setUpdateAvailable(v): React drops a state update of an unmounted component.
SetUpdateAvailable(v) ==
    updateAvailable' = IF isMounted THEN v ELSE updateAvailable

\* The statechange listener of App.tsx:56-61 run for worker w after the
\* browser has moved it to `state` (primed browser variables are the values
\* the handler reads).
OnStateChange(w, state) ==
    IF w \in stateListeners /\ IsUpdateInstalled(state, controller')
    THEN /\ waitingWorkerRef' = regWaiting'
         /\ SetUpdateAvailable(TRUE)
    ELSE UNCHANGED <<waitingWorkerRef, updateAvailable>>

AppInit ==
    /\ swSupported \in BOOLEAN
    /\ isMounted = TRUE
    /\ refreshing = FALSE
    /\ updateAvailable = FALSE
    /\ waitingWorkerRef = NULL
    /\ showInstallPrompt = FALSE
    /\ deferredPromptRef = NULL
    /\ nextPrompt = 1
    /\ promptProp = NULL
    /\ isVisible = FALSE
    /\ prompted = {}
    /\ userChoice = [ev \in 1..MaxPrompts |-> "pending"]
    /\ awaiting = <<>>
    /\ clicks = 0
    /\ reports = <<>>
    /\ readyPc = IF swSupported THEN "awaiting" ELSE "returned"
    /\ stateListeners = {}
    /\ regInstalling = NULL
    \* first visit (no worker yet), or a returning visit with worker 1 active,
    \* controlling the page or not (a forced reload is uncontrolled), and
    \* possibly worker 2 already waiting.
    /\ regActive \in (IF swSupported THEN {NULL, 1} ELSE {NULL})
    /\ controller \in (IF regActive = 1 THEN {NULL, 1} ELSE {NULL})
    /\ regWaiting \in (IF regActive = 1 THEN {NULL, 2} ELSE {NULL})
    /\ workerState = [w \in Workers |->
                        IF w = regActive THEN "activated"
                        ELSE IF w = regWaiting THEN "installed"
                        ELSE "parsed"]
    /\ nextWorker = IF regWaiting # NULL THEN 3 ELSE IF regActive # NULL THEN 2 ELSE 1
    /\ reloads = 0
    /\ ccPending = 0
    /\ ccCount = 0
    /\ skipPosted = {}
    /\ lastEvent = Ev("mount", "", FALSE, NULL)

browserVars == <<regInstalling, regWaiting, regActive, controller, workerState, nextWorker>>
installVars == <<showInstallPrompt, deferredPromptRef, nextPrompt, promptProp, isVisible,
                 prompted, userChoice, awaiting, clicks, reports>>
updateVars  == <<refreshing, updateAvailable, waitingWorkerRef, readyPc, stateListeners,
                 reloads, ccCount, skipPosted>>

\* registerUpdateListeners after `await navigator.serviceWorker.ready`
\* (App.tsx:39-62). The ready promise resolves once the registration has an
\* active worker; it never rejects.
RegisterUpdateListeners ==
    /\ readyPc = "awaiting"
    /\ regActive # NULL
    /\ IF ~isMounted
       THEN /\ readyPc' = "returned"
            /\ UNCHANGED <<waitingWorkerRef, updateAvailable>>
       ELSE /\ readyPc' = "listening"
            /\ IF regWaiting # NULL
               THEN /\ waitingWorkerRef' = regWaiting
                    /\ SetUpdateAvailable(TRUE)
               ELSE UNCHANGED <<waitingWorkerRef, updateAvailable>>
    /\ lastEvent' = Ev("ready", "", regWaiting # NULL /\ isMounted, regWaiting)
    /\ UNCHANGED <<swSupported, isMounted, refreshing, stateListeners, reloads,
                   ccPending, ccCount, skipPosted>>
    /\ UNCHANGED <<browserVars, installVars>>
    /\ UNCHANGED <<swVars, uiVars>>

\* The browser starts installing a new worker version and fires updatefound;
\* the listener of App.tsx:50-62 (attached only after readiness) reads
\* registration.installing, which is null when the install already ended.
UpdateFound(seen) ==
    /\ swSupported
    /\ regInstalling = NULL
    /\ nextWorker <= MaxWorkers
    /\ regInstalling' = nextWorker
    /\ workerState' = [workerState EXCEPT ![nextWorker] = "installing"]
    /\ nextWorker' = nextWorker + 1
    /\ seen \in {NULL, nextWorker}
    /\ stateListeners' = IF readyPc = "listening" /\ seen # NULL
                         THEN stateListeners \cup {seen}
                         ELSE stateListeners
    /\ lastEvent' = Ev("updatefound", "", seen # NULL, nextWorker)
    /\ UNCHANGED <<swSupported, isMounted, refreshing, updateAvailable, waitingWorkerRef,
                   readyPc, reloads, ccPending, ccCount, skipPosted>>
    /\ UNCHANGED <<regWaiting, regActive, controller, installVars>>
    /\ UNCHANGED <<swVars, uiVars>>

\* The installing worker finishes its install: it becomes the waiting worker
\* (a previous waiting worker becomes redundant) and statechange fires with
\* state 'installed'.
WorkerInstalled ==
    /\ regInstalling # NULL
    /\ workerState[regInstalling] = "installing"
    /\ regWaiting' = regInstalling
    /\ regInstalling' = NULL
    /\ workerState' = [w \in Workers |->
                          IF w = regInstalling THEN "installed"
                          ELSE IF w = regWaiting THEN "redundant"
                          ELSE workerState[w]]
    /\ UNCHANGED <<regActive, controller, nextWorker>>
    /\ OnStateChange(regInstalling, "installed")
    /\ lastEvent' = Ev("statechange", "installed",
                       regInstalling \in stateListeners /\ controller # NULL,
                       regInstalling)
    /\ UNCHANGED <<swSupported, isMounted, refreshing, readyPc, stateListeners, reloads,
                   ccPending, ccCount, skipPosted, installVars>>
    /\ UNCHANGED <<swVars, uiVars>>

\* The install fails: the worker becomes redundant, statechange fires.
WorkerInstallFailed ==
    /\ regInstalling # NULL
    /\ workerState[regInstalling] = "installing"
    /\ regInstalling' = NULL
    /\ workerState' = [workerState EXCEPT ![regInstalling] = "redundant"]
    /\ UNCHANGED <<regWaiting, regActive, controller, nextWorker>>
    /\ OnStateChange(regInstalling, "redundant")
    /\ lastEvent' = Ev("statechange", "redundant", FALSE, regInstalling)
    /\ UNCHANGED <<swSupported, isMounted, refreshing, readyPc, stateListeners, reloads,
                   ccPending, ccCount, skipPosted, installVars>>
    /\ UNCHANGED <<swVars, uiVars>>

\* The waiting worker activates: because it was told to skip waiting (by this
\* page or by another tab of the origin) or because no client is controlled
\* (always the case on a first install, where nothing is active yet).
\* A controlled page gets the new worker as its controller and a
\* controllerchange event.
WorkerActivating ==
    /\ regWaiting # NULL
    /\ workerState[regWaiting] = "installed"
    /\ regActive' = regWaiting
    /\ regWaiting' = NULL
    /\ workerState' = [w \in Workers |->
                          IF w = regWaiting THEN "activating"
                          ELSE IF w = regActive THEN "redundant"
                          ELSE workerState[w]]
    /\ controller' = IF controller # NULL THEN regWaiting ELSE NULL
    /\ ccPending' = IF controller # NULL THEN ccPending + 1 ELSE ccPending
    /\ UNCHANGED <<regInstalling, nextWorker>>
    /\ OnStateChange(regWaiting, "activating")
    /\ lastEvent' = Ev("statechange", "activating", FALSE, regWaiting)
    /\ UNCHANGED <<swSupported, isMounted, refreshing, readyPc, stateListeners, reloads,
                   ccCount, skipPosted, installVars>>
    /\ UNCHANGED <<swVars, uiVars>>

WorkerActivated ==
    /\ regActive # NULL
    /\ workerState[regActive] = "activating"
    /\ workerState' = [workerState EXCEPT ![regActive] = "activated"]
    /\ UNCHANGED <<regInstalling, regWaiting, regActive, controller, nextWorker>>
    /\ OnStateChange(regActive, "activated")
    /\ lastEvent' = Ev("statechange", "activated", FALSE, regActive)
    /\ UNCHANGED <<swSupported, isMounted, refreshing, readyPc, stateListeners, reloads,
                   ccPending, ccCount, skipPosted, installVars>>
    /\ UNCHANGED <<swVars, uiVars>>

\* core.clientsClaim() (service-worker.js:113): the active worker takes
\* control of an uncontrolled page, which fires controllerchange there.
ClientsClaim ==
    /\ regActive # NULL
    /\ controller = NULL
    /\ workerState[regActive] \in {"activating", "activated"}
    /\ controller' = regActive
    /\ ccPending' = ccPending + 1
    /\ lastEvent' = Ev("claim", "", FALSE, regActive)
    /\ UNCHANGED <<swSupported, isMounted, updateVars, installVars>>
    /\ UNCHANGED <<regInstalling, regWaiting, regActive, workerState, nextWorker>>
    /\ UNCHANGED <<swVars, uiVars>>


\* A message event from the worker reaches handleMessage (App.tsx:68-72, 83).
Message(data) ==
    /\ swSupported
    /\ isMounted
    /\ regActive # NULL
    /\ SetUpdateAvailable(HandleMessage(data, updateAvailable))
    /\ lastEvent' = Ev("message", data, FALSE, NULL)
    /\ UNCHANGED <<swSupported, isMounted, refreshing, waitingWorkerRef, readyPc,
                   stateListeners, reloads, ccPending, ccCount, skipPosted>>
    /\ UNCHANGED <<browserVars, installVars>>
    /\ UNCHANGED <<swVars, uiVars>>

\* Variant: the handler without its `refreshing` guard.
HandleControllerChange_NoGuard ==
    /\ refreshing' = TRUE
    /\ waitingWorkerRef' = NULL
    /\ reloads' = reloads + 1

\* handleControllerChange (App.tsx:74-81).
HandleControllerChange ==
    IF refreshing
    THEN UNCHANGED <<refreshing, waitingWorkerRef, reloads>>
    ELSE /\ refreshing' = TRUE
         /\ waitingWorkerRef' = NULL
         /\ reloads' = reloads + 1

\* A fired controllerchange event is dispatched; the listener of App.tsx:84
\* is attached from mount until the effect's cleanup (App.tsx:91).
ControllerChange ==
    /\ ccPending > 0
    /\ ccPending' = ccPending - 1
    /\ IF isMounted
       THEN /\ HandleControllerChange
            /\ ccCount' = ccCount + 1
       ELSE UNCHANGED <<refreshing, waitingWorkerRef, reloads, ccCount>>
    /\ lastEvent' = Ev("controllerchange", "", isMounted, controller)
    /\ UNCHANGED <<swSupported, isMounted, updateAvailable, readyPc, stateListeners,
                   skipPosted>>
    /\ UNCHANGED <<browserVars, installVars>>
    /\ UNCHANGED <<swVars, uiVars>>

\* updatePWA (App.tsx:132-135), the click handler of the button that is
\* rendered while updateAvailable (App.tsx:157-159).
UpdatePWA ==
    /\ isMounted
    /\ updateAvailable
    /\ skipPosted' = IF waitingWorkerRef # NULL
                     THEN skipPosted \cup {waitingWorkerRef}
                     ELSE skipPosted
    /\ SetUpdateAvailable(FALSE)
    /\ lastEvent' = Ev("updatePWA", "",
                       waitingWorkerRef # NULL /\ waitingWorkerRef = regWaiting,
                       waitingWorkerRef)
    /\ UNCHANGED <<swSupported, isMounted, refreshing, waitingWorkerRef, readyPc,
                   stateListeners, reloads, ccPending, ccCount>>
    /\ UNCHANGED <<browserVars, installVars>>
    /\ UNCHANGED <<swVars, uiVars>>

\* handleBeforeInstallPrompt (App.tsx:96-100). The event is stored and the
\* prompt shown; InstallPWA is rendered with the stored event when
\* showInstallPrompt changes, while a second event, arriving when it is
\* already true, changes no state and so causes no render.
BeforeInstallPrompt ==
    /\ isMounted
    /\ nextPrompt <= MaxPrompts
    /\ deferredPromptRef' = nextPrompt
    /\ nextPrompt' = nextPrompt + 1
    /\ showInstallPrompt' = TRUE
    /\ promptProp' = IF showInstallPrompt THEN promptProp ELSE nextPrompt
    /\ isVisible' = IF showInstallPrompt THEN isVisible ELSE TRUE
    /\ lastEvent' = Ev("beforeinstallprompt", "", FALSE, NULL)
    /\ UNCHANGED <<prompted, userChoice, awaiting, clicks, reports>>
    /\ UNCHANGED <<swSupported, isMounted, updateVars, ccPending, browserVars>>
    /\ UNCHANGED <<swVars, uiVars>>

\* Variant: the stored event is dropped and the prompt left as it is.
ClearInstallPrompt_RefOnly ==
    /\ deferredPromptRef' = NULL
    /\ UNCHANGED <<showInstallPrompt, promptProp, isVisible>>

\* Variant: the prompt is hidden and the stored event kept.
ClearInstallPrompt_HideOnly ==
    /\ deferredPromptRef' = deferredPromptRef
    /\ showInstallPrompt' = IF isMounted THEN FALSE ELSE showInstallPrompt
    /\ promptProp' = NULL
    /\ isVisible' = FALSE

\* The App state after the stored event is dropped and the prompt hidden
\* (App.tsx:103-104, 117-118, 127-128): InstallPWA is no longer rendered.
\* A state update of an unmounted App is dropped.
ClearInstallPrompt ==
    /\ deferredPromptRef' = NULL
    /\ showInstallPrompt' = IF isMounted THEN FALSE ELSE showInstallPrompt
    /\ promptProp' = NULL
    /\ isVisible' = FALSE

\* handleAppInstalled (App.tsx:102-105).
AppInstalled ==
    /\ isMounted
    /\ ClearInstallPrompt
    /\ lastEvent' = Ev("appinstalled", "", FALSE, NULL)
    /\ UNCHANGED <<nextPrompt, prompted, userChoice, awaiting, clicks, reports>>
    /\ UNCHANGED <<swSupported, isMounted, updateVars, ccPending, browserVars>>
    /\ UNCHANGED <<swVars, uiVars>>

\* A handleInstall call: which call it is and the event it prompts with.
Flow(n, ev) == [flow |-> n, event |-> ev]

\* Variant: the prompt is kept when the user dismissed it.
HandleInstallChoice_KeepOnDismiss(flow, outcome) ==
    /\ reports' = Append(reports, [flow |-> flow.flow, event |-> flow.event,
                                    outcome |-> outcome])
    /\ IF outcome = "accepted" THEN ClearInstallPrompt
       ELSE UNCHANGED <<deferredPromptRef, showInstallPrompt, promptProp, isVisible>>
    /\ lastEvent' = Ev("installChoice", outcome, FALSE, NULL)

\* onInstallChoice(outcome), that is handleInstallChoice (App.tsx:116-124),
\* called by handleInstall, followed by its `finally` (helpStore.ts:90-92).
HandleInstallChoice(flow, outcome) ==
    /\ reports' = Append(reports, [flow |-> flow.flow, event |-> flow.event,
                                    outcome |-> outcome])
    /\ ClearInstallPrompt
    /\ lastEvent' = Ev("installChoice", outcome, FALSE, NULL)

\* Variant: the try block without its catch; what the promise settled with
\* is passed on as it is.
Outcome_NoCatch(settled) == settled

\* What handleInstall reports for a settled promise (helpStore.ts:84-89):
\* choiceResult.outcome when userChoice resolved, and "dismissed" from the
\* catch block when prompt() or userChoice rejected.
Outcome(settled) == IF settled = "rejected" THEN "dismissed" ELSE settled

\* handleInstall up to its first await (helpStore.ts:82-85), the click
\* handler of the "Install App" button, which is rendered while
\* deferredPrompt is set and isVisible (helpStore.ts:78-80). prompt() rejects
\* when the event was prompted before, and may reject for another reason;
\* the catch block then reports "dismissed" (helpStore.ts:87-89).
HandleInstall(fails) ==
    /\ isMounted
    /\ showInstallPrompt
    /\ promptProp # NULL
    /\ isVisible
    /\ clicks < MaxClicks
    /\ clicks' = clicks + 1
    /\ IF fails \/ promptProp \in prompted
       THEN /\ HandleInstallChoice(Flow(clicks + 1, promptProp), Outcome("rejected"))
            /\ UNCHANGED <<prompted, awaiting>>
       ELSE /\ prompted' = prompted \cup {promptProp}
            /\ awaiting' = Append(awaiting, Flow(clicks + 1, promptProp))
            /\ lastEvent' = Ev("install", "", FALSE, NULL)
            /\ UNCHANGED <<deferredPromptRef, showInstallPrompt, promptProp, isVisible,
                           reports>>
    /\ UNCHANGED <<nextPrompt, userChoice>>
    /\ UNCHANGED <<swSupported, isMounted, updateVars, ccPending, browserVars>>
    /\ UNCHANGED <<swVars, uiVars>>

\* The user answers the browser's install dialog of a prompted event (or the
\* browser gives up on it): the event's userChoice promise settles, once.
UserChoice(ev, outcome) ==
    /\ ev \in prompted
    /\ userChoice[ev] = "pending"
    /\ userChoice' = [userChoice EXCEPT ![ev] = outcome]
    /\ lastEvent' = Ev("userChoice", outcome, FALSE, NULL)
    /\ UNCHANGED <<showInstallPrompt, deferredPromptRef, nextPrompt, promptProp, isVisible,
                   prompted, awaiting, clicks, reports>>
    /\ UNCHANGED <<swSupported, isMounted, updateVars, ccPending, browserVars>>
    /\ UNCHANGED <<swVars, uiVars>>

\* handleInstall after its awaits (helpStore.ts:85-92): the first suspended
\* call whose promise has settled goes on and reports the user's choice, or
\* "dismissed" from the catch block when the promise was rejected. The call
\* goes on whether or not the components are still mounted.
ResumeInstall ==
    /\ \E i \in 1..Len(awaiting) :
         /\ userChoice[awaiting[i].event] # "pending"
         /\ \A j \in 1..(i - 1) : userChoice[awaiting[j].event] = "pending"
         /\ awaiting' = SubSeq(awaiting, 1, i - 1) \o SubSeq(awaiting, i + 1, Len(awaiting))
         /\ HandleInstallChoice(awaiting[i], Outcome(userChoice[awaiting[i].event]))
    /\ UNCHANGED <<nextPrompt, prompted, userChoice, clicks>>
    /\ UNCHANGED <<swSupported, isMounted, updateVars, ccPending, browserVars>>
    /\ UNCHANGED <<swVars, uiVars>>

\* handleDismiss (helpStore.ts:95-98), the "Maybe later" button, which calls
\* handleInstallDismiss (App.tsx:126-130).
HandleInstallDismiss ==
    /\ isMounted
    /\ showInstallPrompt
    /\ promptProp # NULL
    /\ isVisible
    /\ ClearInstallPrompt
    /\ lastEvent' = Ev("installDismiss", "", FALSE, NULL)
    /\ UNCHANGED <<nextPrompt, prompted, userChoice, awaiting, clicks, reports>>
    /\ UNCHANGED <<swSupported, isMounted, updateVars, ccPending, browserVars>>
    /\ UNCHANGED <<swVars, uiVars>>

\* App renders again for another reason while the install prompt is shown:
\* InstallPWA gets the event that is stored now (App.tsx:149-155) and its
\* effect sets isVisible from it (helpStore.ts:74-76).
Rerender ==
    /\ isMounted
    /\ showInstallPrompt
    /\ promptProp # deferredPromptRef
    /\ promptProp' = deferredPromptRef
    /\ isVisible' = (deferredPromptRef # NULL)
    /\ lastEvent' = Ev("render", "", FALSE, NULL)
    /\ UNCHANGED <<showInstallPrompt, deferredPromptRef, nextPrompt, prompted, userChoice,
                   awaiting, clicks, reports>>
    /\ UNCHANGED <<swSupported, isMounted, updateVars, ccPending, browserVars>>
    /\ UNCHANGED <<swVars, uiVars>>

\* The cleanup functions of both effects (App.tsx:88-92, 110-113).
Unmount ==
    /\ isMounted
    /\ isMounted' = FALSE
    /\ promptProp' = NULL
    /\ isVisible' = FALSE
    /\ lastEvent' = Ev("unmount", "", FALSE, NULL)
    /\ UNCHANGED <<showInstallPrompt, deferredPromptRef, nextPrompt, prompted, userChoice,
                   awaiting, clicks, reports>>
    /\ UNCHANGED <<swSupported, updateVars, ccPending, browserVars>>
    /\ UNCHANGED <<swVars, uiVars>>

NextApp ==
    \/ RegisterUpdateListeners
    \/ \E seen \in {NULL} \cup Workers : UpdateFound(seen)
    \/ WorkerInstalled
    \/ WorkerInstallFailed
    \/ WorkerActivating
    \/ WorkerActivated
    \/ ClientsClaim
    \/ \E data \in MessageData : Message(data)
    \/ ControllerChange
    \/ UpdatePWA
    \/ Unmount

\* The install prompt controller's events, with the messages and the
\* confirmation that move the update state beside them.
NextInstall ==
    \/ BeforeInstallPrompt
    \/ AppInstalled
    \/ \E fails \in BOOLEAN : HandleInstall(fails)
    \/ \E ev \in 1..MaxPrompts, outcome \in InstallOutcome \cup {"rejected"} :
          UserChoice(ev, outcome)
    \/ ResumeInstall
    \/ HandleInstallDismiss
    \/ Rerender
    \/ \E data \in MessageData : Message(data)
    \/ UpdatePWA
    \/ Unmount



\* ---------------------------------------------- service-worker.js: set-up

OFFLINE_FALLBACK_PAGE == <<"offline.html">>
BG_SYNC_QUEUE == "irshados-offline-post-queue"

\* networkTimeoutSeconds of the navigation strategy.
NetworkTimeoutSeconds == 5

\* A URL path is the sequence of its segments: "/" is <<>>, "/api/orders"
\* is <<"api", "orders">>.
Entry(url, revision) == [url |-> url, revision |-> revision]

\* A value of self.__WB_MANIFEST: an array with its items, or another value.
Array(list) == [isArray |-> TRUE, items |-> list, value |-> "array"]
NotArray(value) == [isArray |-> FALSE, items |-> <<>>, value |-> value]

\* appShellEntries (service-worker.js:17-22); revision "null" is null.
AppShellEntries ==
    << Entry(<<>>, "null"),
       Entry(<<"manifest.json">>, "null"),
       Entry(<<"favicon.svg">>, "null"),
       Entry(OFFLINE_FALLBACK_PAGE, "null") >>

\* The build-time manifests considered: none injected, and a hashed bundle
\* followed by the entries the build configuration always adds.
BuildManifests ==
    { NotArray("undefined"),
      Array(<<Entry(<<"home.js">>, "r1")>> \o AppShellEntries) }

\* Values of self.__WB_MANIFEST that are not arrays: the placeholder was not
\* replaced by the build, or was replaced by something else.
NonArrays == { NotArray("undefined"), NotArray("null") }

\* Array.isArray (service-worker.js:16).
IsArray(m) == m.isArray

\* The build-time manifests of every shape: not an array, and every list of
\* up to MaxManifestLen entries, with repeated and with app-shell URLs.
AnyManifests ==
    LET entries == { Entry(u, r) :
                       u \in {<<>>, <<"manifest.json">>, <<"favicon.svg">>,
                               <<"offline.html">>, <<"home.js">>},
                       r \in {"null", "r1"} }
    IN NonArrays \cup { Array(list) :
                          list \in UNION { [1..n -> entries] : n \in 0..MaxManifestLen } }

\* Variant: the app-shell entries are appended without looking.
PushMissing_Always(list, shell) ==
    list \o shell

RECURSIVE PushMissing(_, _)
\* appShellEntries.forEach(...) (service-worker.js:24-28): push every entry
\* of `shell` whose url no item of `list` has.
PushMissing(list, shell) ==
    IF shell = <<>> THEN list
    ELSE LET entry == Head(shell)
             has == \E i \in 1..Len(list) : list[i].url = entry.url
         IN PushMissing(IF has THEN list ELSE Append(list, entry), Tail(shell))

\* precacheManifest (service-worker.js:15-28).
PrecacheManifest(m) ==
    PushMissing(IF IsArray(m) THEN m.items ELSE <<>>, AppShellEntries)

\* The cache key the precache stores an entry under: the URL itself for a
\* null revision, the URL with the revision as a search parameter otherwise.
CacheKey(e) == <<e.url, e.revision>>

PrecacheKeys(m) ==
    LET pm == PrecacheManifest(m) IN { CacheKey(pm[i]) : i \in 1..Len(pm) }

\* The routes the script registers, in registration order
\* (service-worker.js:10, 30, 33, 45, 57, 68, 83).
RegisteredRoutes(wb) ==
    IF wb THEN <<"precache", "navigate", "static", "media", "api", "post">>
    ELSE <<>>

Namespaces == {"pages", "static", "media", "api"}

\* cacheName of the strategy behind each caching route
\* (service-worker.js:36, 49, 60, 71).
CacheOf(route) ==
    CASE route = "navigate" -> "pages"
      [] route = "static"   -> "static"
      [] route = "media"    -> "media"
      [] route = "api"      -> "api"

\* ------------------------------------------------------------- requests

Req(url, same, method, mode, dest, json) ==
    [url |-> url, sameOrigin |-> same, method |-> method, mode |-> mode,
     destination |-> dest, acceptJson |-> json]

\* The fetch events considered. acceptJson: the Accept header contains
\* "application/json".
GetRequests ==
    { Req(<<>>, TRUE, "GET", "navigate", "document", FALSE),
      Req(<<"dashboard">>, TRUE, "GET", "navigate", "document", FALSE),
      Req(<<"dashboard">>, TRUE, "GET", "navigate", "iframe", FALSE),
      Req(<<"about">>, TRUE, "GET", "navigate", "document", TRUE),
      Req(<<"manifest.json">>, TRUE, "GET", "cors", "manifest", FALSE),
      Req(<<"home.js">>, TRUE, "GET", "no-cors", "script", FALSE),
      Req(<<"logo.png">>, FALSE, "GET", "no-cors", "image", FALSE),
      Req(<<"api", "orders">>, TRUE, "GET", "cors", "", TRUE),
      Req(<<"api", "orders">>, FALSE, "GET", "cors", "", TRUE),
      Req(<<"robots.txt">>, TRUE, "GET", "cors", "", FALSE) }

PostRequests ==
    { Req(<<"api", "orders">>, TRUE, "POST", "cors", "", TRUE),
      Req(<<"contact">>, TRUE, "POST", "cors", "", FALSE),
      Req(<<"contact">>, TRUE, "POST", "navigate", "document", FALSE),
      Req(<<"api", "orders">>, FALSE, "POST", "cors", "", TRUE) }

Urls == { r.url : r \in GetRequests \cup PostRequests }

\* HTTP statuses a server answers with; 0 is an opaque response.
Statuses == {0, 200, 404}

\* What the network does with one request: it answers with a status after
\* `secs` seconds, or the attempt fails (ok = FALSE) after `secs` seconds.
NetOutcomes ==
    [ok : {TRUE}, status : Statuses, secs : {1, NetworkTimeoutSeconds + 1}]
    \cup [ok : {FALSE}, status : {-1}, secs : {1, NetworkTimeoutSeconds + 1}]

\* The outcomes told apart for a strategy without a timeout, which waits for
\* the network however long it takes.
NetOutcomesUntimed == { net \in NetOutcomes : net.secs = 1 }

\* "Nothing stored" in a cache cell, "nothing to store" for a strategy.
NoEntry == -1


\* ------------------------------------------- service-worker.js: strategies

Result(source, status, put) == [source |-> source, status |-> status, put |-> put]

\* JSON.stringify of the catch handler's object (service-worker.js:99-102).
OfflineJsonBody ==
    "{\"error\":\"offline\",\"message\":\"This content is unavailable while you are offline.\"}"

\* The body of a synthesized response; "" for every other response, whose
\* body is the server's or the cached one, or absent (Response.error()).
BodyOf(source) == IF source = "json503" THEN OfflineJsonBody ELSE ""

\* The strategy found no response: the route handler rejects.
Throw == Result("throw", -1, NoEntry)

\* Variant: every fetched response is stored, whatever its status.
CacheWillUpdate_Any(status) ==
    TRUE

\* CacheableResponsePlugin({ statuses: [0, 200] })
\* (service-worker.js:39, 51, 62, 73).
CacheWillUpdate(status) ==
    status \in {0, 200}

\* What a caching strategy writes for a network outcome.
PutOf(net) ==
    IF net.ok /\ CacheWillUpdate(net.status) THEN net.status ELSE NoEntry

\* Variant: every cache is purged on a quota error.
PurgeOnQuotaError_All(ns) ==
    TRUE

\* purgeOnQuotaError of the expiration plugins (service-worker.js:40, 63):
\* set for "irshados-pages" and "irshados-media", absent for the other two.
PurgeOnQuotaError(ns) ==
    ns \in {"pages", "media"}

\* handler.cachePut for a strategy's result. Nothing is written when the
\* strategy has nothing to store. When the write fails with a
\* QuotaExceededError the quota-error callbacks run, one for every plugin
\* with purgeOnQuotaError, each deleting its plugin's cache; the error ends
\* in the event's waitUntil promise, the response was handed on before.
CachePut(c, ns, url, status, quotaError) ==
    IF status = NoEntry THEN c
    ELSE IF quotaError
    THEN [n \in DOMAIN c |->
            IF PurgeOnQuotaError(n) THEN [u \in DOMAIN c[n] |-> NoEntry] ELSE c[n]]
    ELSE [c EXCEPT ![ns][url] = status]

\* strategies.NetworkFirst({ networkTimeoutSeconds: 5 })
\* (service-worker.js:35-42). The network attempt and a 5 s timer race. When
\* the timer wins and the request's cache entry exists, the entry is
\* returned (the attempt goes on and still writes its response); when the
\* entry does not exist the strategy keeps waiting for the network. A
\* failed attempt falls back to the cache entry; without one it throws.
NetworkFirst(cached, net) ==
    IF net.secs > NetworkTimeoutSeconds /\ cached # NoEntry
    THEN Result("cache", cached, PutOf(net))
    ELSE IF net.ok THEN Result("network", net.status, PutOf(net))
    ELSE IF cached # NoEntry THEN Result("cache", cached, NoEntry)
    ELSE Throw

\* Variant: a cached copy is returned and never refreshed.
StaleWhileRevalidate_NoRevalidate(cached, net) ==
    IF cached # NoEntry THEN Result("cache", cached, NoEntry)
    ELSE IF net.ok THEN Result("network", net.status, PutOf(net))
    ELSE Throw

\* strategies.StaleWhileRevalidate (service-worker.js:48-54, 70-76): the
\* cache entry is returned when there is one, the network response
\* otherwise; the network response is written in either case.
StaleWhileRevalidate(cached, net) ==
    IF cached # NoEntry THEN Result("cache", cached, PutOf(net))
    ELSE IF net.ok THEN Result("network", net.status, PutOf(net))
    ELSE Throw

\* strategies.CacheFirst (service-worker.js:59-65): the network is used
\* only on a cache miss.
CacheFirst(cached, net) ==
    IF cached # NoEntry THEN Result("cache", cached, NoEntry)
    ELSE IF net.ok THEN Result("network", net.status, PutOf(net))
    ELSE Throw

\* strategies.NetworkOnly (service-worker.js:85-87).
NetworkOnly(net) ==
    IF net.ok THEN Result("network", net.status, NoEntry) ELSE Throw

\* The strategy of the route precacheAndRoute registers
\* (service-worker.js:30): the precached copy, and the network when the
\* copy is gone from the cache.
PrecacheStrategy(hit, net) ==
    IF hit THEN Result("precache", 200, NoEntry)
    ELSE IF net.ok THEN Result("network", net.status, NoEntry)
    ELSE Throw

\* Variant: the JSON test comes before the document test.
CatchHandler_JsonFirst(req, offlineCached) ==
    IF req.acceptJson THEN Result("json503", 503, NoEntry)
    ELSE IF req.destination = "document"
    THEN IF offlineCached THEN Result("offlinePage", 200, NoEntry)
         ELSE Result("networkError", 0, NoEntry)
    ELSE Result("networkError", 0, NoEntry)

\* routing.setCatchHandler (service-worker.js:91-111). Response.error() is
\* the network-error response: the page's fetch() rejects.
CatchHandler(req, offlineCached) ==
    IF req.destination = "document"
    THEN IF offlineCached THEN Result("offlinePage", 200, NoEntry)
         ELSE Result("networkError", 0, NoEntry)
    ELSE IF req.acceptJson THEN Result("json503", 503, NoEntry)
    ELSE Result("networkError", 0, NoEntry)

\* caches.match(OFFLINE_FALLBACK_PAGE) (service-worker.js:93) looks in every
\* cache of the origin for that exact URL.
OfflineCached ==
    \/ <<OFFLINE_FALLBACK_PAGE, "null">> \in precacheStore
    \/ \E ns \in Namespaces : OFFLINE_FALLBACK_PAGE \in DOMAIN caches[ns]
                              /\ caches[ns][OFFLINE_FALLBACK_PAGE] # NoEntry

\* The matchers of the routes (service-worker.js:30, 34, 46-47, 58, 69, 84).
\* registerRoute without a method argument registers for GET.
Matches(route, req) ==
    CASE route = "precache" ->
            req.method = "GET" /\ req.sameOrigin
            /\ \E k \in urlsToCacheKeys : k[1] = req.url
      [] route = "navigate" ->
            req.method = "GET" /\ req.mode = "navigate"
      [] route = "static" ->
            req.method = "GET" /\ req.destination \in {"style", "script", "worker"}
      [] route = "media" ->
            req.method = "GET" /\ req.destination \in {"image", "font"}
      [] route = "api" ->
            req.method = "GET" /\ req.sameOrigin
            /\ Len(req.url) >= 2 /\ req.url[1] = "api"
      [] route = "post" ->
            req.method = "POST" /\ req.sameOrigin

\* Variant: the last registered route that matches gets the request.
RouteOf_LastMatch(req) ==
    LET hits == { i \in 1..Len(routes) : Matches(routes[i], req) }
    IN IF hits = {} THEN "none"
       ELSE routes[CHOOSE i \in hits : \A j \in hits : i >= j]

\* The router hands a request to the first registered route that matches.
RouteOf(req) ==
    LET hits == { i \in 1..Len(routes) : Matches(routes[i], req) }
    IN IF hits = {} THEN "none"
       ELSE routes[CHOOSE i \in hits : \A j \in hits : i <= j]

\* Every request the router can be asked about: URL, origin, method, mode
\* and destination vary independently.
AllRequests ==
    [url : {<<>>, <<"home.js">>, <<"api">>, <<"api", "orders">>, <<"apis", "orders">>},
     sameOrigin : BOOLEAN,
     method : {"GET", "POST", "PUT"},
     mode : {"navigate", "cors", "no-cors"},
     destination : {"document", "iframe", "style", "script", "worker", "image",
                    "font", "manifest", ""},
     acceptJson : {FALSE}]

\* Variant: the worker skips waiting on every message.
CallsSkipWaiting_Always(data) ==
    TRUE

\* The message listener (service-worker.js:118-122).
CallsSkipWaiting(data) ==
    data = "SKIP_WAITING"


\* --------------------------------------- service-worker.js: offline queue

\* maxRetentionTime of the background-sync plugin, in minutes
\* (service-worker.js:80).
MaxRetentionTime == 24 * 60

\* Date.now() in minutes: the clock advances in steps of half the retention
\* time, so that an entry's age is first below, then exactly at, then above
\* the retention time.
Now == clock * (MaxRetentionTime \div 2)

\* A queued request: its URL, the time it was queued, and the number it was
\* queued under (the first queued request of a run gets 1).
QueueEntry(url, timestamp, id) == [url |-> url, timestamp |-> timestamp, id |-> id]

\* What a step of a replay pass did: the operation, whether the re-sent
\* request got a response, and how many expired entries were discarded.
Replay(op, ok, dropped) == [op |-> op, ok |-> ok, dropped |-> dropped]

NoReplay == Replay("none", FALSE, 0)

\* The outcomes of sending a POST: a response of any status, or a failed attempt.
PostOutcomes ==
    [ok : {TRUE}, status : {200, 404, 500}, secs : {1}]
    \cup [ok : {FALSE}, status : {-1}, secs : {1}]

\* Variant: the retention time is never applied.
IsExpired_Never(entry, now) ==
    FALSE

\* The queue's retention test: the entry is older than maxRetentionTime.
IsExpired(entry, now) ==
    now - entry.timestamp > MaxRetentionTime

\* Queue.pushRequest, called by the plugin's fetchDidFail: the request goes
\* to the end of the queue.
PushRequest(q, entry) == Append(q, entry)

\* Variant: a request whose replay failed is forgotten.
UnshiftRequest_Drop(q, entry) ==
    q

\* Variant: a request whose replay failed is put at the end of the queue.
UnshiftRequest_AtEnd(q, entry) ==
    Append(q, entry)

\* Queue.unshiftRequest, called when a replay fails: the request goes back
\* to the front of the queue, with the timestamp it had.
UnshiftRequest(q, entry) ==
    <<entry>> \o q

RECURSIVE ShiftRequest(_, _)
\* Queue.shiftRequest: takes the first entry off the queue; an expired entry
\* is discarded and the next one taken. `entry` is <<>> when none is left.
ShiftRequest(q, now) ==
    IF q = <<>> THEN [entry |-> <<>>, rest |-> <<>>, dropped |-> 0]
    ELSE IF IsExpired(Head(q), now)
    THEN LET r == ShiftRequest(Tail(q), now)
         IN [r EXCEPT !.dropped = r.dropped + 1]
    ELSE [entry |-> <<Head(q)>>, rest |-> Tail(q), dropped |-> 0]

\* Variant: an error status counts as a failed attempt.
FetchDidFail_OnErrorStatus(net) ==
    ~net.ok \/ net.status >= 400

\* The plugin's fetchDidFail callback runs when the strategy's fetch()
\* rejects, that is when the attempt fails at the network level.
FetchDidFail(net) ==
    ~net.ok


\* ------------------------------------ service-worker.js: cache expiration

\* maxEntries of each cache's expiration plugin
\* (service-worker.js:40, 52, 63, 74).
MaxEntries(ns) ==
    CASE ns = "pages"  -> 20
      [] ns = "static" -> 60
      [] ns = "media"  -> 120
      [] ns = "api"    -> 50

\* maxAgeSeconds was given to the cache's expiration plugin: not for pages.
HasMaxAge(ns) == ns \in {"static", "media", "api"}

\* maxAgeSeconds of each cache's expiration plugin
\* (service-worker.js:52, 63, 74); 0 where it is absent.
MaxAgeSeconds(ns) ==
    CASE ns = "pages"  -> 0
      [] ns = "static" -> 30 * 24 * 60 * 60
      [] ns = "media"  -> 60 * 24 * 60 * 60
      [] ns = "api"    -> 5 * 60

\* The spans of time that pass: each configured age, and a second more.
AgeSteps ==
    { MaxAgeSeconds(ns) + d : ns \in {"static", "media", "api"}, d \in {0, 1} }

\* A cache's entries as the expiration plugin's timestamps tell them apart:
\* `recent` entries and `past` entries, the latter `age` seconds old.
Stamps(recent, past, age) == [recent |-> recent, past |-> past, age |-> age]

\* Variant: the expiration pass applies the age and not the count.
ExpireEntries_AgeOnly(ns, t) ==
    IF HasMaxAge(ns) /\ t.age > MaxAgeSeconds(ns) THEN Stamps(t.recent, 0, t.age)
    ELSE t

\* The expiration pass, expireEntries: going from the newest entry to the
\* oldest, an entry is deleted when it is older than maxAgeSeconds (where
\* that is configured) or when maxEntries newer entries were kept.
ExpireEntries(ns, t) ==
    LET past1  == IF HasMaxAge(ns) /\ t.age > MaxAgeSeconds(ns) THEN 0 ELSE t.past
        recent2 == IF t.recent > MaxEntries(ns) THEN MaxEntries(ns) ELSE t.recent
        past2   == IF past1 > MaxEntries(ns) - recent2 THEN MaxEntries(ns) - recent2
                   ELSE past1
    IN Stamps(recent2, past2, t.age)

\* cacheDidUpdate's updateTimestamp: the written URL is a recent entry now,
\* whether it is new to the cache or was a recent or a past entry.
UpdateTimestamp(t, target) ==
    CASE target = "new"    -> Stamps(t.recent + 1, t.past, t.age)
      [] target = "recent" -> t
      [] target = "past"   -> Stamps(t.recent + 1, t.past - 1, t.age)


\* --------------------------------------------- service-worker.js: events

NoRequest == Req(<<>>, FALSE, "", "", "", FALSE)

\* What the worker did with an event. For a fetch event: the request, the
\* route that took it, what the network did (answered or failed, within the
\* navigation timeout or not), where the response came from and its status;
\* whether the catch handler produced it; whether the request's own cache
\* entry and the offline page existed when the event arrived; whether the
\* request was put on the offline queue; the body when the worker made it up;
\* the status the network answered with (-1 when it did not) and whether the
\* cache write ran into a quota error.
\* For a message event: its data and whether self.skipWaiting() was called.
Resp(kind, req, route, netOk, netSlow, source, status, viaCatch, hadEntry, offlineBefore, queued) ==
    [kind |-> kind, req |-> req, route |-> route, netOk |-> netOk, netSlow |-> netSlow,
     source |-> source, status |-> status, viaCatch |-> viaCatch,
     hadEntry |-> hadEntry, offlineBefore |-> offlineBefore, queued |-> queued,
     body |-> BodyOf(source), data |-> "", skipWaiting |-> FALSE,
     netStatus |-> -1, quotaError |-> FALSE]

NoResp(kind) ==
    Resp(kind, NoRequest, "none", FALSE, FALSE, "none", -1, FALSE, FALSE, FALSE, FALSE)

\* The response a route's result leads to: a rejected handler goes through
\* the catch handler.
Answer(req, route, net, result, hadEntry, queued) ==
    LET final == IF result.source = "throw" THEN CatchHandler(req, OfflineCached)
                 ELSE result
    IN [Resp("fetch", req, route, net.ok, net.secs > NetworkTimeoutSeconds,
             final.source, final.status, result.source = "throw", hadEntry,
             OfflineCached, queued)
          EXCEPT !.netStatus = net.status]

swConfig == <<workbox, manifestEntries, routes, catchHandler, queueName, messageListener,
              precacheManifest, urlsToCacheKeys>>

queueVars == <<queue, clock, nextId, syncing, inFlight, passLog, lastReplay>>

expireVars == <<expCache, expRecent, expPast, expPastAge, lastExpire>>

\* A navigation GET: Network-First on "irshados-pages"
\* (service-worker.js:33-43).
FetchNavigate(req) ==
    /\ workbox
    /\ RouteOf(req) = "navigate"
    /\ \E net \in NetOutcomes, quotaError \in BOOLEAN :
         LET cached == caches["pages"][req.url]
             result == NetworkFirst(cached, net)
         IN /\ quotaError => result.put # NoEntry
            /\ caches' = CachePut(caches, "pages", req.url, result.put, quotaError)
            /\ lastResp' = [Answer(req, "navigate", net, result, cached # NoEntry, FALSE)
                               EXCEPT !.quotaError = quotaError]
    /\ UNCHANGED <<swConfig, precacheStore, queueVars>>
    /\ UNCHANGED expireVars
    /\ UNCHANGED <<appVars, uiVars>>

\* A style, script or worker GET: Stale-While-Revalidate on
\* "irshados-static-v1" (service-worker.js:45-55).
FetchStatic(req) ==
    /\ workbox
    /\ RouteOf(req) = "static"
    /\ \E net \in NetOutcomesUntimed, quotaError \in BOOLEAN :
         LET cached == caches["static"][req.url]
             result == StaleWhileRevalidate(cached, net)
         IN /\ quotaError => result.put # NoEntry
            /\ caches' = CachePut(caches, "static", req.url, result.put, quotaError)
            /\ lastResp' = [Answer(req, "static", net, result, cached # NoEntry, FALSE)
                               EXCEPT !.quotaError = quotaError]
    /\ UNCHANGED <<swConfig, precacheStore, queueVars>>
    /\ UNCHANGED expireVars
    /\ UNCHANGED <<appVars, uiVars>>

\* An image or font GET: Cache-First on "irshados-media"
\* (service-worker.js:57-66).
FetchMedia(req) ==
    /\ workbox
    /\ RouteOf(req) = "media"
    /\ \E net \in NetOutcomesUntimed, quotaError \in BOOLEAN :
         LET cached == caches["media"][req.url]
             result == CacheFirst(cached, net)
         IN /\ quotaError => result.put # NoEntry
            /\ caches' = CachePut(caches, "media", req.url, result.put, quotaError)
            /\ lastResp' = [Answer(req, "media", net, result, cached # NoEntry, FALSE)
                               EXCEPT !.quotaError = quotaError]
    /\ UNCHANGED <<swConfig, precacheStore, queueVars>>
    /\ UNCHANGED expireVars
    /\ UNCHANGED <<appVars, uiVars>>

\* A same-origin GET under /api/: Stale-While-Revalidate on
\* "irshados-api-v1" (service-worker.js:68-77).
FetchApi(req) ==
    /\ workbox
    /\ RouteOf(req) = "api"
    /\ \E net \in NetOutcomesUntimed, quotaError \in BOOLEAN :
         LET cached == caches["api"][req.url]
             result == StaleWhileRevalidate(cached, net)
         IN /\ quotaError => result.put # NoEntry
            /\ caches' = CachePut(caches, "api", req.url, result.put, quotaError)
            /\ lastResp' = [Answer(req, "api", net, result, cached # NoEntry, FALSE)
                               EXCEPT !.quotaError = quotaError]
    /\ UNCHANGED <<swConfig, precacheStore, queueVars>>
    /\ UNCHANGED expireVars
    /\ UNCHANGED <<appVars, uiVars>>

\* A GET for a precached URL: the precache route is registered first
\* (service-worker.js:30) and takes it.
FetchPrecached(req) ==
    /\ workbox
    /\ RouteOf(req) = "precache"
    /\ \E net \in NetOutcomesUntimed :
         LET hit == \E k \in precacheStore : k[1] = req.url
         IN lastResp' = Answer(req, "precache", net, PrecacheStrategy(hit, net),
                               hit, FALSE)
    /\ UNCHANGED <<swConfig, precacheStore, caches, queueVars>>
    /\ UNCHANGED expireVars
    /\ UNCHANGED <<appVars, uiVars>>

\* A same-origin POST: Network-Only with the background-sync plugin
\* (service-worker.js:79-89). When the attempt fails the plugin's
\* fetchDidFail callback appends the request to the queue, and the strategy
\* then rejects, which hands the event to the catch handler.
FetchPost(req) ==
    /\ workbox
    /\ RouteOf(req) = "post"
    /\ \E net \in PostOutcomes :
         LET result == NetworkOnly(net)
         IN /\ FetchDidFail(net) => nextId <= MaxQueue
            /\ queue' = IF FetchDidFail(net)
                         THEN PushRequest(queue, QueueEntry(req.url, Now, nextId))
                         ELSE queue
            /\ nextId' = IF FetchDidFail(net) THEN nextId + 1 ELSE nextId
            /\ lastResp' = Answer(req, "post", net, result, FALSE, FetchDidFail(net))
    /\ UNCHANGED <<swConfig, precacheStore, caches>>
    /\ UNCHANGED <<clock, syncing, inFlight, passLog, lastReplay>>
    /\ UNCHANGED expireVars
    /\ UNCHANGED <<appVars, uiVars>>

\* Time passes.
Tick ==
    /\ clock < MaxClock
    /\ clock' = clock + 1
    /\ lastResp' = NoResp("tick")
    /\ UNCHANGED <<swConfig, precacheStore, caches>>
    /\ UNCHANGED <<queue, nextId, syncing, inFlight, passLog, lastReplay>>
    /\ UNCHANGED expireVars
    /\ UNCHANGED <<appVars, uiVars>>

\* The browser delivers a sync event for the queue's tag (or the worker
\* starts, where background sync is missing): the plugin's queue starts a
\* replay pass, replayRequests.
Sync ==
    /\ queueName # ""
    /\ ~syncing
    /\ syncing' = TRUE
    /\ passLog' = <<>>
    /\ lastReplay' = Replay("sync", FALSE, 0)
    /\ lastResp' = NoResp("sync")
    /\ UNCHANGED <<swConfig, precacheStore, caches>>
    /\ UNCHANGED <<queue, clock, nextId, inFlight>>
    /\ UNCHANGED expireVars
    /\ UNCHANGED <<appVars, uiVars>>

\* One turn of the pass's loop, `entry = await this.shiftRequest()`: the
\* first entry that has not expired is taken off the queue to be re-sent;
\* the pass ends when no entry is left.
ReplayShift ==
    /\ syncing
    /\ inFlight = <<>>
    /\ LET r == ShiftRequest(queue, Now)
       IN /\ queue' = r.rest
          /\ inFlight' = r.entry
          /\ syncing' = (r.entry # <<>>)
          /\ passLog' = IF r.entry # <<>> THEN Append(passLog, r.entry[1].id)
                         ELSE passLog
          /\ lastReplay' = Replay(IF r.entry # <<>> THEN "shift" ELSE "end",
                                   FALSE, r.dropped)
    /\ lastResp' = NoResp("sync")
    /\ UNCHANGED <<swConfig, precacheStore, caches>>
    /\ UNCHANGED <<clock, nextId>>
    /\ UNCHANGED expireVars
    /\ UNCHANGED <<appVars, uiVars>>

\* The re-sent request settles: `await fetch(entry.request.clone())`. A
\* response, of any status, lets the loop go on; a failed attempt puts the
\* entry back (unshiftRequest) and ends the pass with an error, after which
\* the browser schedules another sync.
ReplayFetch(net) ==
    /\ inFlight # <<>>
    /\ IF net.ok
       THEN UNCHANGED <<queue, syncing>>
       ELSE /\ queue' = UnshiftRequest(queue, inFlight[1])
            /\ syncing' = FALSE
    /\ inFlight' = <<>>
    /\ lastReplay' = Replay("fetch", net.ok, 0)
    /\ lastResp' = NoResp("sync")
    /\ UNCHANGED <<swConfig, precacheStore, caches>>
    /\ UNCHANGED <<clock, nextId, passLog>>
    /\ UNCHANGED expireVars
    /\ UNCHANGED <<appVars, uiVars>>

\* A request no route matches (or any request when the toolkit did not
\* load): the worker does not answer and the browser fetches as usual.
FetchUnrouted(req) ==
    /\ RouteOf(req) = "none"
    /\ \E net \in NetOutcomesUntimed :
         lastResp' = Resp("fetch", req, "none", net.ok, net.secs > NetworkTimeoutSeconds,
                          IF net.ok THEN "network" ELSE "networkError",
                          IF net.ok THEN net.status ELSE 0,
                          FALSE, FALSE, OfflineCached, FALSE)
    /\ UNCHANGED <<swConfig, precacheStore, caches, queueVars>>
    /\ UNCHANGED expireVars
    /\ UNCHANGED <<appVars, uiVars>>

\* The router looks for the route of a request (the fetch listener the
\* first registerRoute installs): nothing is fetched or stored.
Dispatch(req) ==
    /\ lastResp' = [NoResp("route") EXCEPT !.req = req, !.route = RouteOf(req)]
    /\ UNCHANGED <<swConfig, precacheStore, caches, queueVars>>
    /\ UNCHANGED expireVars
    /\ UNCHANGED <<appVars, uiVars>>

\* The browser evaluates the worker script (service-worker.js:10-116) and
\* installs the worker: the manifest is completed and precached, the routes,
\* the queue and the catch handler are set up.
EvaluateScript ==
    /\ lastResp.kind = "parsed"
    /\ precacheManifest' = IF workbox THEN PrecacheManifest(manifestEntries) ELSE <<>>
    /\ routes' = RegisteredRoutes(workbox)
    /\ catchHandler' = workbox
    /\ queueName' = IF workbox THEN BG_SYNC_QUEUE ELSE ""
    /\ messageListener' = TRUE
    /\ urlsToCacheKeys' = IF workbox THEN PrecacheKeys(manifestEntries) ELSE {}
    /\ precacheStore' = urlsToCacheKeys'
    /\ lastResp' = NoResp("init")
    /\ UNCHANGED <<workbox, manifestEntries, caches, queueVars>>
    /\ UNCHANGED expireVars
    /\ UNCHANGED <<appVars, uiVars>>

\* A strategy writes a response to the followed cache: the plugin's
\* cacheDidUpdate records the time of the write, then runs the expiration
\* pass. `target` tells whether the URL is new to the cache.
CacheDidUpdate(target) ==
    /\ workbox
    /\ target = "recent" => expRecent > 0
    /\ target = "past" => expPast > 0
    /\ LET t == ExpireEntries(expCache,
                   UpdateTimestamp(Stamps(expRecent, expPast, expPastAge), target))
       IN /\ expRecent' = t.recent
          /\ expPast' = t.past
          /\ expPastAge' = IF t.past = 0 THEN 0 ELSE t.age
    /\ lastExpire' = [op |-> "write", target |-> target]
    /\ UNCHANGED expCache
    /\ UNCHANGED <<swConfig, precacheStore, caches, queueVars, lastResp>>
    /\ UNCHANGED <<appVars, uiVars>>

\* Time passes while the cache is not written: its entries are `age`
\* seconds old afterwards.
Elapse(age) ==
    /\ expPast = 0
    /\ expRecent > 0
    /\ expPast' = expRecent
    /\ expRecent' = 0
    /\ expPastAge' = age
    /\ lastExpire' = [op |-> "elapse", target |-> ""]
    /\ UNCHANGED expCache
    /\ UNCHANGED <<swConfig, precacheStore, caches, queueVars, lastResp>>
    /\ UNCHANGED <<appVars, uiVars>>

\* The message listener (service-worker.js:118-122) receives event.data.
SwMessage(data) ==
    /\ messageListener
    /\ lastResp' = [NoResp("message") EXCEPT !.data = data,
                                              !.skipWaiting = CallsSkipWaiting(data)]
    /\ UNCHANGED <<swConfig, precacheStore, caches, queueVars>>
    /\ UNCHANGED expireVars
    /\ UNCHANGED <<appVars, uiVars>>

\* The origin's Cache Storage is deleted (by the user or by the browser
\* under storage pressure): the precache and the runtime caches are gone.
CachesDeleted ==
    /\ precacheStore' = {}
    /\ caches' = [ns \in Namespaces |-> [u \in Urls |-> NoEntry]]
    /\ lastResp' = NoResp("deleted")
    /\ UNCHANGED <<swConfig, queueVars>>
    /\ UNCHANGED expireVars
    /\ UNCHANGED <<appVars, uiVars>>

NextSW ==
    \/ \E req \in GetRequests : FetchNavigate(req)
    \/ \E req \in GetRequests : FetchPrecached(req)
    \/ \E req \in GetRequests : FetchStatic(req)
    \/ \E req \in GetRequests : FetchMedia(req)
    \/ \E req \in GetRequests : FetchApi(req)
    \/ \E req \in GetRequests : FetchUnrouted(req)
    \/ \E data \in MessageData : SwMessage(data)
    \/ CachesDeleted

NextPost ==
    \/ \E req \in PostRequests : FetchPost(req)
    \/ \E req \in PostRequests \cup GetRequests : FetchUnrouted(req)
    \/ \E req \in GetRequests : FetchPrecached(req)
    \/ CachesDeleted

NextRoute ==
    \E req \in AllRequests : Dispatch(req)

NextManifest ==
    EvaluateScript

NextExpire ==
    \/ \E target \in {"new", "recent", "past"} : CacheDidUpdate(target)
    \/ \E age \in AgeSteps : Elapse(age)

NextQueue ==
    \/ \E req \in PostRequests : FetchPost(req)
    \/ Tick
    \/ Sync
    \/ ReplayShift
    \/ \E net \in PostOutcomes : ReplayFetch(net)

\* No write to the followed cache yet.
ExpireIdle ==
    /\ expRecent = 0
    /\ expPast = 0
    /\ expPastAge = 0
    /\ lastExpire = [op |-> "none", target |-> ""]

\* The queue of a freshly installed worker.
QueueIdle ==
    /\ clock = 0
    /\ nextId = 1
    /\ syncing = FALSE
    /\ inFlight = <<>>
    /\ passLog = <<>>
    /\ lastReplay = NoReplay

\* The state after the script has been evaluated and the worker installed:
\* every precache entry is stored (a failed precache fails the install).
SWInit ==
    /\ workbox \in BOOLEAN
    /\ manifestEntries \in BuildManifests
    /\ routes = RegisteredRoutes(workbox)
    /\ catchHandler = workbox
    /\ queueName = IF workbox THEN BG_SYNC_QUEUE ELSE ""
    /\ messageListener = TRUE
    /\ precacheManifest = IF workbox THEN PrecacheManifest(manifestEntries) ELSE <<>>
    /\ urlsToCacheKeys = IF workbox THEN PrecacheKeys(manifestEntries) ELSE {}
    /\ precacheStore = urlsToCacheKeys
    /\ caches = [ns \in Namespaces |-> [u \in Urls |-> NoEntry]]
    /\ queue = <<>>
    /\ lastResp = NoResp("init")
    /\ QueueIdle

\* The worker script fetched and not yet evaluated, for a build-time
\* manifest of any shape.
SWParsed ==
    /\ workbox \in BOOLEAN
    /\ manifestEntries \in AnyManifests
    /\ routes = <<>>
    /\ catchHandler = FALSE
    /\ queueName = ""
    /\ messageListener = FALSE
    /\ precacheManifest = <<>>
    /\ urlsToCacheKeys = {}
    /\ precacheStore = {}
    /\ caches = [ns \in Namespaces |-> [u \in Urls |-> NoEntry]]
    /\ queue = <<>>
    /\ lastResp = NoResp("parsed")
    /\ QueueIdle

\* The worker as the page specification sees it: loaded, nothing requested.
SWIdle ==
    /\ workbox = TRUE
    /\ manifestEntries = Array(AppShellEntries)
    /\ routes = RegisteredRoutes(workbox)
    /\ catchHandler = workbox
    /\ queueName = BG_SYNC_QUEUE
    /\ messageListener = TRUE
    /\ precacheManifest = PrecacheManifest(manifestEntries)
    /\ urlsToCacheKeys = PrecacheKeys(manifestEntries)
    /\ precacheStore = urlsToCacheKeys
    /\ caches = [ns \in Namespaces |-> [u \in Urls |-> NoEntry]]
    /\ queue = <<>>
    /\ lastResp = NoResp("init")
    /\ QueueIdle

\* The page as the worker specification sees it: mounted and controlled by
\* the active worker 1, the situation in which its requests reach the worker.
AppControlled ==
    /\ AppInit
    /\ swSupported
    /\ regActive = 1
    /\ controller = 1
    /\ regWaiting = NULL


\* ------------------------------------------------- claims on the page

\* C1: within one mounted App, any number of controllerchange notifications
\* causes window.location.reload() to be called exactly once: no reload
\* before the first notification, one reload from the first one on.
C1_ReloadExactlyOnce ==
    reloads = IF ccCount > 0 THEN 1 ELSE 0

\* C1 witness: two notifications were handled and there was one reload.
C1_Witness ==
    ccCount >= 2 /\ reloads = 1

\* C2: whenever the update-available signal is shown, user confirmation
\* (updatePWA) posts SKIP_WAITING to a waiting worker and leaves the
\* update-available state, whatever path led to update-available.
C2_ConfirmPostsSkipWaiting ==
    lastEvent.type = "updatePWA" =>
        /\ lastEvent.worker # NULL
        /\ lastEvent.cond
        /\ ~updateAvailable

\* C3: updateAvailable turns from false to true only (a) at readiness with a
\* waiting worker present, (b) when a found worker reaches 'installed' while
\* the page has a controller, or (c) on a NEW_VERSION message; so a worker
\* reaching 'installed' without a controller never produces it.
C3_UpdateAvailableOnlyOn ==
    [][ (~updateAvailable /\ updateAvailable') =>
          \/ (lastEvent'.type = "ready" /\ regWaiting # NULL)
          \/ (lastEvent'.type = "statechange" /\ lastEvent'.arg = "installed"
                /\ controller' # NULL)
          \/ (lastEvent'.type = "message" /\ lastEvent'.arg = "NEW_VERSION") ]_vars

\* C3 witness: path (b) has happened; the listened-to worker is installed,
\* the page is controlled and the signal is up.
C3_Witness ==
    /\ lastEvent.type = "statechange"
    /\ lastEvent.arg = "installed"
    /\ lastEvent.worker \in stateListeners
    /\ controller # NULL
    /\ updateAvailable
    /\ waitingWorkerRef = lastEvent.worker

C20_InstallReportsOnce ==
    /\ \A n \in 1..clicks :
          Cardinality({ i \in 1..Len(reports) : reports[i].flow = n })
            + Cardinality({ i \in 1..Len(awaiting) : awaiting[i].flow = n }) = 1
    /\ \A i \in 1..Len(reports) : reports[i].outcome \in {"accepted", "dismissed"}
    /\ \A i \in 1..Len(awaiting) : awaiting[i].event \in prompted
    /\ lastEvent.type = "installChoice" =>
          /\ deferredPromptRef = NULL
          /\ isMounted => ~showInstallPrompt
          /\ promptProp = NULL
          /\ ~isVisible

\* C20 witness: one activation on the stored event, the user accepted, the
\* outcome was reported once, and the prompt is gone.
C20_Witness ==
    /\ clicks = 1
    /\ reports = << [flow |-> 1, event |-> 1, outcome |-> "accepted"] >>
    /\ awaiting = <<>>
    /\ lastEvent.type = "installChoice"
    /\ isMounted
    /\ deferredPromptRef = NULL
    /\ ~showInstallPrompt

\* An activation whose prompt() threw: the call did not suspend.
PromptThrew == clicks' = clicks + 1 /\ awaiting' = awaiting

\* A suspended call went on after its userChoice promise was rejected.
ChoiceRejected ==
    \E i \in 1..Len(awaiting) :
        /\ userChoice[awaiting[i].event] = "rejected"
        /\ \A j \in 1..Len(awaiting') : awaiting'[j] # awaiting[i]

\* C21: when prompt() throws or userChoice rejects, the call reports
\* "dismissed" through onInstallChoice (the exception ends in the catch
\* block, the call completes), and the stored event is cleared and the
\* prompt hidden, as for a dismissal by the user.
C21_FailureIsDismissed ==
    [][ (PromptThrew \/ ChoiceRejected) =>
          /\ Len(reports') = Len(reports) + 1
          /\ reports'[Len(reports')].outcome = "dismissed"
          /\ lastEvent' = Ev("installChoice", "dismissed", FALSE, NULL)
          /\ deferredPromptRef' = NULL
          /\ isMounted' => ~showInstallPrompt'
          /\ promptProp' = NULL /\ ~isVisible' ]_vars

\* C21 witness: the userChoice promise of the prompted event was rejected
\* and the suspended call reported "dismissed".
C21_Witness ==
    /\ userChoice[1] = "rejected"
    /\ reports = << [flow |-> 1, event |-> 1, outcome |-> "dismissed"] >>
    /\ awaiting = <<>>
    /\ lastEvent.type = "installChoice"
    /\ deferredPromptRef = NULL
    /\ isMounted /\ ~showInstallPrompt

\* C22: an appinstalled event, whether no prompt is stored, a prompt is
\* available or an install call awaits the user's choice, sets the stored
\* event to null and showInstallPrompt to false, and leaves updateAvailable
\* and the waiting worker reference as they were.
C22_AppInstalledClears ==
    [][ lastEvent'.type = "appinstalled" =>
          /\ deferredPromptRef' = NULL
          /\ showInstallPrompt' = FALSE
          /\ UNCHANGED <<updateAvailable, waitingWorkerRef>> ]_vars

\* C22 witness: appinstalled arrived while an install call was awaiting
\* the user's choice and an update was on offer.
C22_Witness ==
    /\ lastEvent.type = "appinstalled"
    /\ awaiting # <<>>
    /\ userChoice[awaiting[1].event] = "pending"
    /\ updateAvailable
    /\ deferredPromptRef = NULL
    /\ ~showInstallPrompt

\* C25: a page reload happens only after the user confirmed an update: when
\* window.location.reload() has been called, an updatePWA call has posted
\* SKIP_WAITING to a worker before.
C25_ReloadOnlyAfterConfirm ==
    reloads > 0 => skipPosted # {}

\* C26: onInstallChoice is called at most once for each captured
\* beforeinstallprompt event, also when the install button is activated a
\* second time before the first activation's userChoice has settled.
C26_OneOutcomePerEvent ==
    \A ev \in 1..MaxPrompts :
        Cardinality({ i \in 1..Len(reports) : reports[i].event = ev }) <= 1

\* C27: while App is mounted, showInstallPrompt is true only if a
\* beforeinstallprompt event is stored; appinstalled, an install choice and
\* the "Maybe later" dismissal clear both, and the prompt comes back only
\* with a new beforeinstallprompt event.
C27_PromptNeedsEvent ==
    /\ [](isMounted /\ showInstallPrompt => deferredPromptRef # NULL)
    /\ [][ /\ ( /\ isMounted'
                /\ lastEvent'.type \in {"appinstalled", "installChoice", "installDismiss"} )
              => (~showInstallPrompt' /\ deferredPromptRef' = NULL)
           /\ (~showInstallPrompt /\ showInstallPrompt')
              => (lastEvent'.type = "beforeinstallprompt" /\ deferredPromptRef' # NULL)
       ]_vars

\* C27 witness: the second prompt event of the page was dismissed with
\* "Maybe later"; the prompt is hidden and no event is stored.
C27_Witness ==
    /\ isMounted
    /\ lastEvent.type = "installDismiss"
    /\ nextPrompt = 3
    /\ ~showInstallPrompt
    /\ deferredPromptRef = NULL

\* ------------------------------------------------ claims on the worker

IsFetch == lastResp.kind = "fetch"

\* C5: the worker calls self.skipWaiting() when and only when it receives a
\* message whose data.type is "SKIP_WAITING"; that listener is installed
\* whether or not the caching toolkit loaded, while the routes, the queue
\* and the catch handler are registered only when it loaded.
C5_SkipWaitingOnlyOnMessage ==
    /\ lastResp.skipWaiting <=>
          (lastResp.kind = "message" /\ lastResp.data = "SKIP_WAITING")
    /\ messageListener
    /\ (routes # <<>>) <=> workbox
    /\ catchHandler <=> workbox
    /\ (queueName # "") <=> workbox

\* C5 witness: the toolkit did not load, nothing is registered, and a
\* SKIP_WAITING message made the worker skip waiting.
C5_Witness ==
    /\ ~workbox
    /\ routes = <<>>
    /\ lastResp.kind = "message"
    /\ lastResp.skipWaiting

\* C6: every response stored in the pages, static, media or api cache has
\* status 0 or 200; a response with another status is returned, not written.
C6_OnlyCacheableStored ==
    /\ \A ns \in Namespaces : \A u \in Urls : caches[ns][u] \in {NoEntry, 0, 200}
    /\ (IsFetch /\ lastResp.route \in {"navigate", "static", "media", "api"}
          /\ lastResp.source = "network" /\ lastResp.status \notin {0, 200}
          /\ ~lastResp.hadEntry)
       => caches[CacheOf(lastResp.route)][lastResp.req.url] = NoEntry

\* C6 witness: a 404 was fetched by a caching strategy and returned to the
\* caller, its cache still has no entry for the URL, and another request's
\* response has been stored.
C6_Witness ==
    /\ IsFetch
    /\ lastResp.route = "media"
    /\ lastResp.source = "network"
    /\ lastResp.status = 404
    /\ caches["media"][lastResp.req.url] = NoEntry
    /\ \E u \in Urls : caches["pages"][u] = 200
    /\ \E u \in Urls : caches["api"][u] = 0

\* C7: every navigation request issued while the network answers within
\* 5 seconds is answered with the live network response, not a cached copy;
\* for all navigation URLs, precached ones such as "/" included.
C7_NavigationIsLive ==
    (IsFetch /\ lastResp.req.mode = "navigate" /\ lastResp.netOk /\ ~lastResp.netSlow)
       => lastResp.source = "network"

\* C8: a navigation request issued while the network is unreachable or takes
\* longer than 5 seconds is answered with its own pages-cache entry if there
\* is one, otherwise with the precached /offline.html if present, otherwise
\* with a network error.
C8_NavigationFallback ==
    (IsFetch /\ lastResp.req.mode = "navigate" /\ (~lastResp.netOk \/ lastResp.netSlow))
       => IF lastResp.hadEntry /\ lastResp.route = "navigate"
          THEN lastResp.source = "cache"
          ELSE IF lastResp.offlineBefore
          THEN lastResp.source = "offlinePage"
          ELSE lastResp.source = "networkError"

\* C9: when a routed request fails all strategies the catch handler answers,
\* in this order: for destination 'document' the cached /offline.html if
\* present, else a network error; else for an Accept header with
\* application/json a 503 with the offline JSON body; else a network error
\* without a body. Nothing but the destination, the Accept header and the
\* presence of /offline.html decides.
C9_CatchHandlerPrecedence ==
    (IsFetch /\ lastResp.viaCatch) =>
       LET r == lastResp IN
       IF r.req.destination = "document"
       THEN IF r.offlineBefore
            THEN r.source = "offlinePage" /\ r.body = ""
            ELSE r.source = "networkError" /\ r.body = ""
       ELSE IF r.req.acceptJson
       THEN /\ r.source = "json503"
            /\ r.status = 503
            /\ r.body = "{\"error\":\"offline\",\"message\":\"This content is unavailable while you are offline.\"}"
       ELSE r.source = "networkError" /\ r.body = ""

\* C9 witness: a failed document request that also accepts JSON got the
\* offline page (the document test comes first).
C9_Witness ==
    /\ IsFetch
    /\ lastResp.viaCatch
    /\ lastResp.req.destination = "document"
    /\ lastResp.req.acceptJson
    /\ lastResp.offlineBefore
    /\ lastResp.source = "offlinePage"

\* C10: a same-origin POST issued while the network is down (and handled by
\* the worker's POST route) returns to the caller without an error, and a
\* queue entry for its URL exists right afterwards.
C10_OfflinePostSucceeds ==
    (IsFetch /\ lastResp.route = "post" /\ lastResp.req.method = "POST"
       /\ lastResp.req.sameOrigin /\ ~lastResp.netOk)
       => /\ lastResp.source \notin {"networkError", "json503"}
          /\ \E i \in 1..Len(queue) : queue[i].url = lastResp.req.url

C16_Classification ==
    (lastResp.kind = "route" /\ workbox) =>
       LET q == lastResp.req
           precached == q.sameOrigin /\ \E i \in 1..Len(precacheManifest) :
                                            precacheManifest[i].url = q.url
       IN lastResp.route =
            IF q.method = "GET"
            THEN IF precached THEN "precache"
                 ELSE IF q.mode = "navigate" THEN "navigate"
                 ELSE IF q.destination \in {"style", "script", "worker"} THEN "static"
                 ELSE IF q.destination \in {"image", "font"} THEN "media"
                 ELSE IF q.sameOrigin /\ Len(q.url) >= 2 /\ q.url[1] = "api" THEN "api"
                 ELSE "none"
            ELSE IF q.method = "POST" /\ q.sameOrigin THEN "post"
            ELSE "none"

\* C16 witness: a cross-origin GET of /api/orders, not a navigation and with
\* no destination, was given no route.
C16_Witness ==
    /\ lastResp.kind = "route"
    /\ workbox
    /\ lastResp.req.url = <<"api", "orders">>
    /\ ~lastResp.req.sameOrigin
    /\ lastResp.req.method = "GET"
    /\ lastResp.req.mode = "cors"
    /\ lastResp.req.destination = ""
    /\ lastResp.route = "none"

\* The number of entries of a manifest with a given url.
CountUrl(list, url) == Cardinality({ i \in 1..Len(list) : list[i].url = url })

\* C19: for every build-time manifest, the list handed to precacheAndRoute
\* starts with the build-time entries, unchanged and in order (none when the
\* manifest is not an array), followed by those of /, /manifest.json,
\* /favicon.svg and /offline.html, in this order and with revision null,
\* whose url the build-time list does not have; each of the four URLs is in
\* the list, and no URL is there more often than in the build-time list,
\* or than once when the build-time list does not have it.
C19_PrecacheManifest ==
    (lastResp.kind = "init" /\ workbox) =>
       LET build == IF manifestEntries.isArray THEN manifestEntries.items ELSE <<>>
           pm == precacheManifest
           n == Len(build)
           shell == << <<>>, <<"manifest.json">>, <<"favicon.svg">>, <<"offline.html">> >>
           missing == { k \in 1..4 : CountUrl(build, shell[k]) = 0 }
       IN /\ Len(pm) = n + Cardinality(missing)
          /\ SubSeq(pm, 1, n) = build
          /\ \A i \in (n + 1)..Len(pm) :
                \E k \in missing :
                   /\ pm[i] = [url |-> shell[k], revision |-> "null"]
                   /\ Cardinality({ j \in missing : j < k }) = i - n - 1
          /\ \A k \in 1..4 : CountUrl(pm, shell[k]) >= 1
          /\ \A i \in 1..Len(pm) :
                CountUrl(pm, pm[i].url) =
                   IF CountUrl(build, pm[i].url) > 0 THEN CountUrl(build, pm[i].url) ELSE 1

\* C19 witness: the build-time list has / twice, under a revision, and a
\* bundle; the three other app-shell entries were added after them.
C19_Witness ==
    /\ lastResp.kind = "init"
    /\ workbox
    /\ manifestEntries.items = << [url |-> <<>>, revision |-> "r1"],
                                  [url |-> <<"home.js">>, revision |-> "r1"],
                                  [url |-> <<>>, revision |-> "r1"] >>
    /\ Len(precacheManifest) = 6
    /\ precacheManifest[6].url = <<"offline.html">>

\* C17: after every write and its expiration pass a cache holds at most its
\* configured number of entries: pages 20, static 60, media 120, api 50.
\* Entries older than 30 days (static), 60 days (media) or 5 minutes (api)
\* are gone after the pass, entries of exactly that age or younger are kept
\* while there is room; in the pages cache entries of any age are kept
\* while there is room.
C17_CacheCeilings ==
    [][ lastExpire'.op = "write" =>
          LET total == expRecent' + expPast'
              room == expRecent + expPast < (CASE expCache = "pages"  -> 20
                                               [] expCache = "static" -> 60
                                               [] expCache = "media"  -> 120
                                               [] expCache = "api"    -> 50)
              tooOld == \/ expCache = "static" /\ expPastAge > 30 * 24 * 60 * 60
                        \/ expCache = "media" /\ expPastAge > 60 * 24 * 60 * 60
                        \/ expCache = "api" /\ expPastAge > 5 * 60
              rewritten == IF lastExpire'.target = "past" THEN 1 ELSE 0
          IN /\ expCache = "pages" => total <= 20
             /\ expCache = "static" => total <= 60
             /\ expCache = "media" => total <= 120
             /\ expCache = "api" => total <= 50
             /\ tooOld => expPast' = 0
             /\ (~tooOld /\ room) => expPast' = expPast - rewritten ]_vars

\* C17 witness: the pages cache is full after a write, with entries in it
\* that are older than 60 days.
C17_Witness ==
    /\ lastExpire.op = "write"
    /\ expCache = "pages"
    /\ expRecent + expPast = 20
    /\ expPast >= 1
    /\ expPastAge > 60 * 24 * 60 * 60

\* C18: a quota error on a cache write empties the pages and the media
\* cache and nothing else: the static and api caches, the precache and the
\* offline queue are as before, and the request is answered as if the write
\* had succeeded, not by the catch handler and not with an error.
C18_QuotaPurge ==
    [][ (lastResp'.kind = "fetch" /\ lastResp'.quotaError) =>
          /\ \A u \in Urls : caches'["pages"][u] = NoEntry /\ caches'["media"][u] = NoEntry
          /\ caches'["static"] = caches["static"]
          /\ caches'["api"] = caches["api"]
          /\ precacheStore' = precacheStore
          /\ queue' = queue
          /\ ~lastResp'.viaCatch
          /\ lastResp'.source \in {"network", "cache"} ]_vars

\* C18 witness: the write of a fetched script failed with a quota error; the
\* script was served from the network, the page and media caches are empty
\* and the api cache kept its entry.
C18_Witness ==
    /\ IsFetch
    /\ lastResp.quotaError
    /\ lastResp.route = "static"
    /\ lastResp.source = "network"
    /\ \A u \in Urls : caches["pages"][u] = NoEntry /\ caches["media"][u] = NoEntry
    /\ \E u \in Urls : caches["api"][u] # NoEntry

\* ------------------------------------------- claims on the offline queue

\* The entries of a sequence, as a set.
EntriesOf(q) == { q[i] : i \in 1..Len(q) }

\* The last event was a same-origin POST that the worker's POST route
\* handled and whose network attempt failed.
FailedPost(r) ==
    /\ r.kind = "fetch"
    /\ r.route = "post"
    /\ r.req.method = "POST"
    /\ r.req.sameOrigin
    /\ ~r.netOk

\* C11: a same-origin POST (handled by the worker's POST route) is appended
\* to the offline queue if and only if its network attempt failed at the
\* network level; a POST that got a response of any status, a GET and a
\* cross-origin POST leave the queue as it was.
C11_EnqueuedIffNetworkFailure ==
    [][ IF FailedPost(lastResp')
        THEN /\ Len(queue') = Len(queue) + 1
             /\ SubSeq(queue', 1, Len(queue)) = queue
             /\ queue'[Len(queue')].url = lastResp'.req.url
        ELSE queue' = queue ]_vars

\* C11 witness: a POST was answered with status 500 and was not queued,
\* while the queue holds one earlier POST whose attempt had failed.
C11_Witness ==
    /\ IsFetch
    /\ lastResp.route = "post"
    /\ lastResp.netOk
    /\ lastResp.status = 500
    /\ Len(queue) = 1

\* C12: every failed same-origin POST attempt adds exactly one entry, under
\* a number no other entry has; and replay is first-in first-out: the queue
\* is always in enqueue order, the entry being re-sent was enqueued before
\* everything still queued, and a pass attempts entries in enqueue order,
\* whatever enqueues, sync events and replay failures interleave.
C12_OneEntryFifo ==
    /\ [](/\ \A i, j \in 1..Len(queue) : i < j => queue[i].id < queue[j].id
          /\ \A e \in EntriesOf(inFlight) : \A i \in 1..Len(queue) : e.id < queue[i].id
          /\ \A i, j \in 1..Len(passLog) : i < j => passLog[i] < passLog[j])
    /\ [][ FailedPost(lastResp') =>
             /\ Len(queue') + Len(inFlight') = Len(queue) + Len(inFlight) + 1
             /\ \A e \in EntriesOf(queue) \cup EntriesOf(inFlight) :
                   e.id # queue'[Len(queue')].id ]_vars

\* C12 witness: a pass re-sent two entries, the second attempt failed, and
\* that entry is back in front of an entry that was enqueued after it.
C12_Witness ==
    /\ lastReplay.op = "fetch"
    /\ ~lastReplay.ok
    /\ Len(passLog) = 2
    /\ Len(queue) = 2
    /\ queue[1].id = passLog[2]

C14_ExpiredNeverReplayed ==
    [][ lastReplay'.op \in {"shift", "end"} /\ lastResp'.kind = "sync" =>
          /\ \A e \in EntriesOf(inFlight') : clock * 12 * 60 - e.timestamp <= 24 * 60
          /\ \A i \in 1..Len(queue) :
                (clock * 12 * 60 - queue[i].timestamp > 24 * 60
                   /\ \A j \in 1..(i - 1) : clock * 12 * 60 - queue[j].timestamp > 24 * 60)
                => queue[i] \notin EntriesOf(queue') \cup EntriesOf(inFlight')
          /\ Len(passLog') = Len(passLog) + Len(inFlight')
          /\ appVars' = appVars ]_vars

\* C14 witness: a pass discarded an entry older than the retention time and
\* took the next one, whose age is exactly the retention time, to re-send.
C14_Witness ==
    /\ lastReplay.op = "shift"
    /\ lastReplay.dropped >= 1
    /\ \E e \in EntriesOf(inFlight) : clock * 12 * 60 - e.timestamp = 24 * 60


\* ------------------------------------------------ the help panel

\* A key that is null or undefined.
NoKey == "(null)"

\* defaultHelpTopicKey.
DefaultHelpTopicKey == "home"

\* Values of currentRouteKey: unset, empty, or the key of a route.
RouteKeys == {NoKey, "", "home", "inventory.products", "sales.orders"}

\* Variant: only a null key falls back to the default topic.
KeyOrDefault_Nullish(key) == IF key = NoKey THEN DefaultHelpTopicKey ELSE key

\* `currentRouteKey ?? defaultHelpTopicKey`, where currentRouteKey is the
\* selector's `state.currentRouteKey || undefined`: an unset or empty
\* route key gives the default topic.
KeyOrDefault(key) == IF key \in {NoKey, ""} THEN DefaultHelpTopicKey ELSE key

\* The store before the panel is used, on a page without a route key.
HelpInit ==
    /\ isOpen = FALSE
    /\ topicKey = NoKey
    /\ currentRouteKey = ""
    /\ lastHelp = "init"

\* handleOpen: setTopic(key) and open(key) with the current route's key;
\* the effect that follows sets the same topic again.
HandleOpen ==
    /\ isOpen' = TRUE
    /\ topicKey' = KeyOrDefault(currentRouteKey)
    /\ lastHelp' = "open"
    /\ UNCHANGED currentRouteKey
    /\ UNCHANGED <<formVars, cartVars>>
    /\ UNCHANGED <<appVars, swVars>>

\* close(), from the drawer's close controls.
Close ==
    /\ isOpen' = FALSE
    /\ lastHelp' = "close"
    /\ UNCHANGED <<topicKey, currentRouteKey>>
    /\ UNCHANGED <<formVars, cartVars>>
    /\ UNCHANGED <<appVars, swVars>>

\* The route changes; while the panel is open its effect follows the route.
RouteChange(key) ==
    /\ key # currentRouteKey
    /\ currentRouteKey' = key
    /\ topicKey' = IF isOpen THEN KeyOrDefault(key) ELSE topicKey
    /\ lastHelp' = "route"
    /\ UNCHANGED isOpen
    /\ UNCHANGED <<formVars, cartVars>>
    /\ UNCHANGED <<appVars, swVars>>

\* ------------------------------------------------ the sign-up form

OrganizationModes == {"new", "existing"}

Roles == {"owner", "admin", "member"}

\* Variant: joining an existing organization keeps whatever role is selected.
LockedRole_KeepsOwner(mode, selectedRole) ==
    IF mode = "new" THEN "owner" ELSE selectedRole

\* The role the effect leaves in the form.
LockedRole(mode, selectedRole) ==
    IF mode = "new" THEN "owner"
    ELSE IF selectedRole \in {"admin", "member"} THEN selectedRole
    ELSE "member"

\* useForm's defaultValues; the effect runs once after the first render.
FormInit ==
    /\ organizationMode = "new"
    /\ role = "owner"
    /\ effectPending = TRUE

\* The user picks an organization mode. A pending effect runs before the
\* next event is handled.
SetOrganizationMode(mode) ==
    /\ ~effectPending
    /\ mode # organizationMode
    /\ organizationMode' = mode
    /\ effectPending' = TRUE
    /\ UNCHANGED role
    /\ UNCHANGED <<helpVars, cartVars>>
    /\ UNCHANGED <<appVars, swVars>>

\* The role field changes.
SetRole(value) ==
    /\ ~effectPending
    /\ value # role
    /\ role' = value
    /\ effectPending' = TRUE
    /\ UNCHANGED organizationMode
    /\ UNCHANGED <<helpVars, cartVars>>
    /\ UNCHANGED <<appVars, swVars>>

\* The role effect; it is due again when it changed the role it watches.
RoleEffect ==
    /\ effectPending
    /\ role' = LockedRole(organizationMode, role)
    /\ effectPending' = (role' # role)
    /\ UNCHANGED organizationMode
    /\ UNCHANGED <<helpVars, cartVars>>
    /\ UNCHANGED <<appVars, swVars>>

\* ------------------------------------------------ the cart

\* Strings are sequences of words and hyphens, so that joining them with
\* hyphens is the concatenation it is in the code. An option that is not
\* given is Undefined.
Undefined == <<"undefined">>

\* The catalogue looked at: product ids with their price.
ProductIds == { <<"a">>, <<"a", "-", "b">> }

Price(productId) == IF productId = <<"a">> THEN 10 ELSE 25

\* Colour and size options: not given, or a name, which may hold a hyphen.
Colors == { Undefined, <<"b">>, <<"b", "-", "c">> }

Sizes == { Undefined, <<"d">>, <<"c", "-", "d">> }

\* The selections a shopper makes: a product with a colour and a size,
\* or a product that has neither.
Selections ==
    { <<ProductIdOf, ColorOf, SizeOf>> \in ProductIds \X Colors \X Sizes :
        \/ /\ ProductIdOf = <<"a">>
           /\ ColorOf # Undefined /\ SizeOf # Undefined
           /\ ~(ColorOf = <<"b", "-", "c">> /\ SizeOf = <<"c", "-", "d">>)
        \/ ProductIdOf # <<"a">> /\ ColorOf = Undefined /\ SizeOf = Undefined }

\* options.quantity: not given, or an integer.
Given(n) == [given |-> TRUE, value |-> n]

NotGiven == [given |-> FALSE, value |-> 0]

QuantityOptions == { NotGiven } \cup { Given(n) : n \in {-1, 0, 2} }

Max(a, b) == IF a >= b THEN a ELSE b

\* Variant: the quantity is taken as it is.
ClampQuantity_None(quantity) == quantity

\* Math.max(1, quantity).
ClampQuantity(quantity) == Max(1, quantity)

\* buildVariantKey, as addItem calls it (no suffix).
BuildVariantKey(productId, color, size) ==
    LET safeColor == IF color \in {Undefined, <<>>}
                     THEN <<"default", "-", "color">> ELSE color
        safeSize == IF size \in {Undefined, <<>>}
                    THEN <<"default", "-", "size">> ELSE size
    IN productId \o <<"-">> \o safeColor \o <<"-">> \o safeSize

\* The item ids passed to removeItem and updateQuantity: those of the
\* selections, and one that no line has.
ItemIds ==
    { BuildVariantKey(sel[1], sel[2], sel[3]) : sel \in Selections } \cup { <<"none">> }

CartItem(itemId, productId, color, size, quantity) ==
    [itemId |-> itemId, productId |-> productId, price |-> Price(productId),
     color |-> color, size |-> size, quantity |-> quantity]

\* A cart action with its arguments.
CartOp(op, productId, color, size, itemId, quantity) ==
    [op |-> op, productId |-> productId, color |-> color, size |-> size,
     itemId |-> itemId, quantity |-> quantity]

NoCart == CartOp("none", Undefined, Undefined, Undefined, Undefined, 0)

\* The updater of addItem.
AddItemTo(list, productId, color, size, quantity) ==
    LET variantKey == BuildVariantKey(productId, color, size)
    IN IF \E i \in 1..Len(list) : list[i].itemId = variantKey
       THEN [i \in 1..Len(list) |->
                IF list[i].itemId = variantKey
                THEN [list[i] EXCEPT !.quantity = list[i].quantity + quantity]
                ELSE list[i]]
       ELSE Append(list, CartItem(variantKey, productId, color, size, quantity))

\* The updater of removeItem.
RemoveItemFrom(list, itemId) ==
    LET keep(item) == item.itemId # itemId
    IN SelectSeq(list, keep)

\* Variant: every line gets the quantity.
UpdateQuantityIn_EveryLine(list, itemId, quantity) ==
    [i \in 1..Len(list) |-> [list[i] EXCEPT !.quantity = ClampQuantity(quantity)]]

\* The updater of updateQuantity.
UpdateQuantityIn(list, itemId, quantity) ==
    [i \in 1..Len(list) |->
        IF list[i].itemId = itemId
        THEN [list[i] EXCEPT !.quantity = ClampQuantity(quantity)]
        ELSE list[i]]

\* Array.prototype.reduce with a numeric accumulator, left to right.
RECURSIVE Reduce(_, _, _)
Reduce(list, total, withPrice) ==
    IF list = <<>> THEN total
    ELSE Reduce(Tail(list),
                total + (IF withPrice THEN Head(list).price * Head(list).quantity
                         ELSE Head(list).quantity),
                withPrice)

\* Variant: the lines are counted, not their quantities.
SelectCartSummary_CountsLines(state) ==
    [itemCount |-> Len(state.items), subtotal |-> Reduce(state.items, 0, TRUE)]

SelectCartSummary(state) ==
    [itemCount |-> Reduce(state.items, 0, FALSE),
     subtotal |-> Reduce(state.items, 0, TRUE)]

CartInit ==
    /\ items = <<>>
    /\ lastCart = NoCart

\* addItem(product, { color, size, quantity }).
AddItem(productId, color, size, quantity) ==
    LET q == ClampQuantity(IF quantity.given THEN quantity.value ELSE 1)
    IN /\ items' = AddItemTo(items, productId, color, size, q)
       /\ \A i \in 1..Len(items') : items'[i].quantity <= MaxQuantity
       /\ lastCart' = CartOp("addItem", productId, color, size,
                             BuildVariantKey(productId, color, size), q)
       /\ UNCHANGED <<helpVars, formVars>>
       /\ UNCHANGED <<appVars, swVars>>

\* removeItem(itemId).
RemoveItem(itemId) ==
    /\ items' = RemoveItemFrom(items, itemId)
    /\ lastCart' = CartOp("removeItem", Undefined, Undefined, Undefined, itemId, 0)
    /\ UNCHANGED <<helpVars, formVars>>
    /\ UNCHANGED <<appVars, swVars>>

\* updateQuantity(itemId, quantity).
UpdateQuantity(itemId, quantity) ==
    /\ items' = UpdateQuantityIn(items, itemId, quantity)
    /\ lastCart' = CartOp("updateQuantity", Undefined, Undefined, Undefined, itemId,
                          quantity)
    /\ UNCHANGED <<helpVars, formVars>>
    /\ UNCHANGED <<appVars, swVars>>

\* clear().
Clear ==
    /\ items' = <<>>
    /\ lastCart' = CartOp("clear", Undefined, Undefined, Undefined, Undefined, 0)
    /\ UNCHANGED <<helpVars, formVars>>
    /\ UNCHANGED <<appVars, swVars>>

NextCart ==
    \/ \E sel \in Selections, quantity \in QuantityOptions :
          AddItem(sel[1], sel[2], sel[3], quantity)
    \/ \E itemId \in ItemIds : RemoveItem(itemId)
    \/ \E itemId \in ItemIds, quantity \in -1..MaxQuantity : UpdateQuantity(itemId, quantity)
    \/ Clear

UIInit == HelpInit /\ FormInit /\ CartInit

\* The help panel and the sign-up form, two components of the same page
\* tree that share no state.
NextUI ==
    \/ HandleOpen
    \/ Close
    \/ \E key \in RouteKeys : RouteChange(key)
    \/ \E mode \in OrganizationModes : SetOrganizationMode(mode)
    \/ \E value \in Roles : SetRole(value)
    \/ RoleEffect


InitApp == AppInit /\ SWIdle /\ ExpireIdle /\ expCache = "pages" /\ UIInit

InitSW == AppControlled /\ SWInit /\ ExpireIdle /\ expCache = "pages" /\ UIInit

InitExpire == AppControlled /\ SWIdle /\ ExpireIdle /\ expCache \in Namespaces /\ UIInit

SpecExpire == InitExpire /\ [][NextExpire]_vars

SpecApp == InitApp /\ [][NextApp]_vars

SpecInstall == InitApp /\ [][NextInstall]_vars

SpecSW == InitSW /\ [][NextSW]_vars

SpecPost == InitSW /\ [][NextPost]_vars

SpecQueue == InitSW /\ [][NextQueue]_vars

SpecRoute == InitSW /\ [][NextRoute]_vars

InitManifest == AppControlled /\ SWParsed /\ ExpireIdle /\ expCache = "pages" /\ UIInit

SpecManifest == InitManifest /\ [][NextManifest]_vars

\* A mounted page under a steady worker, with the stores and the form as
\* they are created.
InitUI == AppControlled /\ SWIdle /\ ExpireIdle /\ expCache = "pages" /\ UIInit

SpecUI == InitUI /\ [][NextUI]_vars

SpecCart == InitUI /\ [][NextCart]_vars

\* The lines of a cart made for a selection.
LinesFor(list, productId, color, size) ==
    { i \in 1..Len(list) : /\ list[i].productId = productId
                           /\ list[i].color = color
                           /\ list[i].size = size }

\* C28: addItem adds its quantity to an existing line if and only if that
\* line was made for the same productId, colour and size, and appends a new
\* line at the end otherwise; no two lines share an itemId.
C28_MergeOnlySameVariant ==
    /\ [](\A i, j \in 1..Len(items) : items[i].itemId = items[j].itemId => i = j)
    /\ [][ lastCart'.op = "addItem" =>
            LET same == LinesFor(items, lastCart'.productId, lastCart'.color,
                                 lastCart'.size)
            IN IF same # {}
               THEN /\ Len(items') = Len(items)
                    /\ \A i \in 1..Len(items) :
                          items'[i] = IF i \in same
                                      THEN [items[i] EXCEPT !.quantity =
                                              items[i].quantity + lastCart'.quantity]
                                      ELSE items[i]
               ELSE /\ Len(items') = Len(items) + 1
                    /\ SubSeq(items', 1, Len(items)) = items
                    /\ items'[Len(items')].productId = lastCart'.productId
                    /\ items'[Len(items')].color = lastCart'.color
                    /\ items'[Len(items')].size = lastCart'.size
                    /\ items'[Len(items')].quantity = lastCart'.quantity ]_cartVars

\* C23: opening the help panel sets isOpen to true and topicKey to the
\* current route key when that key is not empty, and to the default topic
\* key "home" when it is empty or unset; closing sets isOpen to false and
\* leaves topicKey as it was.
C23_HelpOpenClose ==
    [][ /\ lastHelp' = "open" =>
             /\ isOpen'
             /\ topicKey' = IF currentRouteKey \in {NoKey, ""}
                            THEN "home" ELSE currentRouteKey
        /\ lastHelp' = "close" =>
             /\ ~isOpen'
             /\ topicKey' = topicKey ]_helpVars

\* C23 witness: the panel was opened on a page without a route key and
\* shows the default topic.
C23_Witness ==
    /\ lastHelp = "open"
    /\ currentRouteKey = ""
    /\ isOpen
    /\ topicKey = "home"

\* C24: once the role effect has settled, the role is "owner" whenever the
\* organization mode is "new" and "admin" or "member" whenever it is
\* "existing"; the effect turns "owner" into "member" after a switch to
\* "existing".
C24_RoleLocked ==
    /\ [](~effectPending =>
            /\ organizationMode = "new" => role = "owner"
            /\ organizationMode = "existing" => role \in {"admin", "member"})
    /\ [][ organizationMode = "existing" /\ role = "owner" =>
            role' = "member" /\ organizationMode' = "existing" ]_formVars

\* C24 witness: the form was switched from "new" to "existing" and the
\* effect has settled on "member".
C24_Witness ==
    /\ organizationMode = "existing"
    /\ role = "member"
    /\ ~effectPending

\* C29: after any sequence of addItem, updateQuantity, removeItem and clear
\* with integer quantities, zero and negative ones included, every line has
\* a quantity of at least 1, and selectCartSummary gives the sum of the
\* quantities as itemCount and the sum of price * quantity as subtotal,
\* both 0 for an empty cart.
C29_QuantitiesAndSummary ==
    LET count[n \in 0..Len(items)] ==
            IF n = 0 THEN 0 ELSE count[n - 1] + items[n].quantity
        amount[n \in 0..Len(items)] ==
            IF n = 0 THEN 0 ELSE amount[n - 1] + items[n].price * items[n].quantity
        summary == SelectCartSummary([items |-> items])
    IN /\ \A i \in 1..Len(items) : items[i].quantity >= 1
       /\ summary.itemCount = count[Len(items)]
       /\ summary.subtotal = amount[Len(items)]
       /\ items = <<>> => summary = [itemCount |-> 0, subtotal |-> 0]

\* C29 witness: updateQuantity was called with a quantity below 1 on a line
\* of a cart of two lines, and the line has quantity 1.
C29_Witness ==
    /\ lastCart.op = "updateQuantity"
    /\ lastCart.quantity < 1
    /\ Len(items) = 2
    /\ \E i \in 1..2 : items[i].itemId = lastCart.itemId /\ items[i].quantity = 1
    /\ SelectCartSummary([items |-> items]).itemCount > 2

\* C30: updateQuantity and removeItem touch only the line with the given
\* itemId: the other lines keep their fields and their order, and the list
\* is unchanged when no line has that itemId; removeItem leaves no such
\* line and removing again changes nothing; updateQuantity keeps every
\* line in its place.
C30_OnlyThatLine ==
    [][ lastCart'.op \in {"removeItem", "updateQuantity"} =>
          LET other(item) == item.itemId # lastCart'.itemId
          IN /\ SelectSeq(items', other) = SelectSeq(items, other)
             /\ SelectSeq(items, other) = items => items' = items
             /\ lastCart'.op = "removeItem" =>
                   /\ SelectSeq(items', other) = items'
                   /\ RemoveItemFrom(items', lastCart'.itemId) = items'
             /\ lastCart'.op = "updateQuantity" =>
                   /\ Len(items') = Len(items)
                   /\ \A i \in 1..Len(items) : items'[i].itemId = items[i].itemId
      ]_cartVars

\* C30 witness: updateQuantity changed the second of three lines and the
\* lines around it are as they were made.
C30_Witness ==
    /\ lastCart.op = "updateQuantity"
    /\ Len(items) = 3
    /\ items[2].itemId = lastCart.itemId
    /\ items[2].quantity = 3
    /\ items[1].quantity = 1
    /\ items[3].quantity = 2
=============================================================================
